---------------------------- MODULE Spec2Model ----------------------------
(***************************************************************************)
(* Perchance language support: the text -> structure -> diagnostics        *)
(* pipeline of the editor extension (collectListDefinitions,               *)
(* collectListReferences, analyzeDocument, provideDefinition) and the      *)
(* markup boundary it shares with the batch validator (findHtmlStart).     *)
(*                                                                         *)
(* A document is a sequence of lines, a line is a string, columns and line *)
(* indexes are 0-based as in the JavaScript source.                        *)
(***************************************************************************)
EXTENDS Naturals, Integers, Sequences, FiniteSets, TLC

VARIABLES
    text,        \* the document: its lines (document.lineAt / content.split)
    out,         \* what the last entry point returned
    lastIndex,   \* LIST_REF_REGEX.lastIndex, the module-level /g regex state
    config,      \* the "perchance" configuration section
    collection,  \* the document's entry in the diagnostic collection
    argv,        \* process.argv.slice(2) of the batch validator
    files,       \* the files of the examples directory, with their sizes
    textDocuments,         \* workspace.textDocuments, by uri
    activeTextEditor,      \* the uri of window.activeTextEditor.document, "" when undefined
    diagnosticCollection,  \* the extension's diagnostic collection, by uri
    adapter                \* which of the two extension sources is activated

\* the state of the editor that hosts the extension
editor == <<textDocuments, activeTextEditor, diagnosticCollection, adapter>>

vars == <<text, out, lastIndex, config, collection, argv, files, editor>>

----------------------------------------------------------------------------
(* Bounds of the model. *)

MaxIndent == 6
MaxBoundaryLines == 3
MaxReferenceLines == 2
MaxDefinitionLines == 3
MaxRegionLines == 4
MaxLines == 2
MaxCondition == 4
MaxRuleLines == 3
MaxIndentRun == 4
MaxFixCondition == 3
MaxHtmlLines == 2
MaxHeaderLength == 4
MaxNameLines == 3
MaxArgs == 3

MaxFormatLines == 3

MaxFunctionLines == 4

MaxCommentPieces == 3

MaxMarkupLines == 4

----------------------------------------------------------------------------
(* JavaScript string primitives. *)

Letters ==
    {"a","b","c","d","e","f","g","h","i","j","k","l","m","n","o","p","q","r",
     "s","t","u","v","w","x","y","z",
     "A","B","C","D","E","F","G","H","I","J","K","L","M","N","O","P","Q","R",
     "S","T","U","V","W","X","Y","Z"}

Digits == {"0","1","2","3","4","5","6","7","8","9"}

\* \s of a regular expression and the characters String.prototype.trim removes
WhiteSpace == {" ", "\t"}

\* text[i] || "" with a 0-based index
CharAt(s, i) == IF i >= 0 /\ i < Len(s) THEN SubSeq(s, i + 1, i + 1) ELSE ""

\* s.slice(from, to) for 0 <= from, to
Slice(s, from, to) ==
    LET t == IF to > Len(s) THEN Len(s) ELSE to
    IN  IF from >= t THEN "" ELSE SubSeq(s, from + 1, t)

SliceFrom(s, from) == Slice(s, from, Len(s))

StartsWith(s, prefix) ==
    Len(prefix) <= Len(s) /\ Slice(s, 0, Len(prefix)) = prefix

\* the length of the longest run of characters of `chars` starting at index i
RECURSIVE RunLength(_, _, _)
RunLength(s, i, chars) ==
    IF CharAt(s, i) \in chars THEN 1 + RunLength(s, i + 1, chars) ELSE 0

\* the length of the longest run of characters of `chars` ending at index i
RECURSIVE RunLengthBack(_, _, _)
RunLengthBack(s, i, chars) ==
    IF CharAt(s, i) \in chars THEN 1 + RunLengthBack(s, i - 1, chars) ELSE 0

TrailingRunLength(s, chars) == RunLengthBack(s, Len(s) - 1, chars)

TrimStart(s) == SliceFrom(s, RunLength(s, 0, WhiteSpace))

TrimEnd(s) == Slice(s, 0, Len(s) - TrailingRunLength(s, WhiteSpace))

Trim(s) == TrimEnd(TrimStart(s))

\* s.indexOf(needle), -1 when absent
IndexOf(s, needle) ==
    LET hits == {i \in 0..Len(s) : StartsWith(SliceFrom(s, i), needle)}
    IN  IF hits = {} THEN -1
        ELSE CHOOSE i \in hits : \A j \in hits : i <= j

\* s.includes(needle)
Includes(s, needle) == IndexOf(s, needle) # -1

\* the number of occurrences of the character c in s
CountInString(s, c) == Cardinality({i \in 0..(Len(s) - 1) : CharAt(s, i) = c})

\* all strings over `chars` of length at most n
RECURSIVE StringsUpTo(_, _)
StringsUpTo(chars, n) ==
    IF n = 0 THEN {""}
    ELSE LET shorter == StringsUpTo(chars, n - 1)
         IN  shorter \cup {s \o c : s \in shorter, c \in chars}

\* all documents of 1..n lines drawn from `bank`
DocumentsOver(bank, n) == UNION {[1..k -> bank] : k \in 1..n}

----------------------------------------------------------------------------
(* The markup boundary. *)

\* /<\/?[a-zA-Z]/.test(s)
HasTagOpener(s) ==
    \E i \in 0..(Len(s) - 1) :
        /\ CharAt(s, i) = "<"
        /\ \/ CharAt(s, i + 1) \in Letters
           \/ CharAt(s, i + 1) = "/" /\ CharAt(s, i + 2) \in Letters

looksLikeHtmlStartNoMarkerCheck(line) ==
    LET trimmed == TrimStart(line)
    IN  IF ~StartsWith(trimmed, "<") THEN FALSE
        ELSE HasTagOpener(trimmed)

looksLikeHtmlStart(line) ==
    LET trimmed == TrimStart(line)
    IN  IF ~StartsWith(trimmed, "<") THEN FALSE
        ELSE IF StartsWith(trimmed, "<<<<<") THEN FALSE
        ELSE HasTagOpener(trimmed)

\* the loop of findHtmlStart from `index` on, with the sawBlank flag
RECURSIVE findHtmlStartFrom(_, _, _)
findHtmlStartFrom(lines, index, sawBlank) ==
    IF index >= Len(lines) THEN Len(lines)
    ELSE LET line == lines[index + 1]
         IN  IF Trim(line) = "" THEN findHtmlStartFrom(lines, index + 1, TRUE)
             ELSE IF sawBlank /\ looksLikeHtmlStart(line) THEN index
             ELSE findHtmlStartFrom(lines, index + 1, FALSE)

\* a sawBlank flag that a non-blank line fails to clear
RECURSIVE findHtmlStartStickyBlank(_, _, _)
findHtmlStartStickyBlank(lines, index, sawBlank) ==
    IF index >= Len(lines) THEN Len(lines)
    ELSE LET line == lines[index + 1]
         IN  IF Trim(line) = "" THEN findHtmlStartStickyBlank(lines, index + 1, TRUE)
             ELSE IF sawBlank /\ looksLikeHtmlStart(line) THEN index
             ELSE findHtmlStartStickyBlank(lines, index + 1, sawBlank)

findHtmlStartSticky(lines) == findHtmlStartStickyBlank(lines, 0, FALSE)

findHtmlStart(lines) == findHtmlStartFrom(lines, 0, FALSE)

----------------------------------------------------------------------------
(* Indentation. *)

\* line.match(/^[\t ]+/): the leading run of tabs and spaces ("" when none)
IndentOf(line) == Slice(line, 0, RunLength(line, 0, {"\t", " "}))

RECURSIVE countIndentLoop(_, _, _, _)
countIndentLoop(indent, i, level, spaces) ==
    IF i >= Len(indent) THEN level
    ELSE LET char == CharAt(indent, i)
         IN  IF char = "\t" THEN countIndentLoop(indent, i + 1, level + 1, spaces)
             ELSE IF char = " "
                  THEN IF spaces + 1 = 2
                       THEN countIndentLoop(indent, i + 1, level + 1, 0)
                       ELSE countIndentLoop(indent, i + 1, level, spaces + 1)
             ELSE countIndentLoop(indent, i + 1, level, spaces)

\* a pending odd space forgotten when a tab is met
RECURSIVE countIndentLoopTabResets(_, _, _, _)
countIndentLoopTabResets(indent, i, level, spaces) ==
    IF i >= Len(indent) THEN level
    ELSE LET char == CharAt(indent, i)
         IN  IF char = "\t" THEN countIndentLoopTabResets(indent, i + 1, level + 1, 0)
             ELSE IF char = " "
                  THEN IF spaces + 1 = 2
                       THEN countIndentLoopTabResets(indent, i + 1, level + 1, 0)
                       ELSE countIndentLoopTabResets(indent, i + 1, level, spaces + 1)
             ELSE countIndentLoopTabResets(indent, i + 1, level, spaces)

countIndentLevelTabResets(indent) == countIndentLoopTabResets(indent, 0, 0, 0)

countIndentLevel(indent) == countIndentLoop(indent, 0, 0, 0)

----------------------------------------------------------------------------
(* The patterns of list names, headers and references. *)

\* [A-Za-z_]
NameStart == Letters \cup {"_"}

\* [A-Za-z0-9_-], the editor analyzer and the validator
NameRest == Letters \cup Digits \cup {"_", "-"}

\* [A-Za-z0-9_], src/extension.js
NameRestPlain == Letters \cup Digits \cup {"_"}

\* the length of the match of [first][rest]* at index i, 0 when none
IdentLength(s, i, first, rest) ==
    IF CharAt(s, i) \in first THEN 1 + RunLength(s, i + 1, rest) ELSE 0

\* LIST_BLOCK_HEADER_REGEX: match[1], "" when the line does not match
BlockHeaderName(trimmed, rest) ==
    IF /\ trimmed # ""
       /\ \/ IdentLength(trimmed, 0, NameStart, rest) = Len(trimmed)
          \/ /\ StartsWith(trimmed, "$")
             /\ Len(trimmed) >= 2
             /\ IdentLength(trimmed, 1, NameStart, rest) = Len(trimmed) - 1
    THEN trimmed
    ELSE ""

\* a shorthand pattern that also takes a "$" before the identifier
ShorthandNameWithDollar(trimmed, rest) ==
    LET from == IF StartsWith(trimmed, "$") THEN 1 ELSE 0
        n == IdentLength(trimmed, from, NameStart, rest)
    IN  IF n > 0 /\ CharAt(trimmed, from + n + RunLength(trimmed, from + n, WhiteSpace)) = "="
        THEN Slice(trimmed, from, from + n)
        ELSE ""

\* LIST_SHORTHAND_REGEX: match[1], "" when the line does not match
ShorthandName(trimmed, rest) ==
    LET n == IdentLength(trimmed, 0, NameStart, rest)
    IN  IF n > 0 /\ CharAt(trimmed, n + RunLength(trimmed, n, WhiteSpace)) = "="
        THEN Slice(trimmed, 0, n)
        ELSE ""

\* DOLLAR_SHORTHAND_REGEX matches
IsDollarShorthand(trimmed, rest) ==
    LET n == IdentLength(trimmed, 1, NameStart, rest)
    IN  /\ StartsWith(trimmed, "$")
        /\ n > 0
        /\ CharAt(trimmed, 1 + n + RunLength(trimmed, 1 + n, WhiteSpace)) = "="

\* the length of the match of LIST_REF_REGEX that starts at index p, 0 when none
RefMatchLength(s, p, rest) ==
    LET n == IdentLength(s, p + 2, NameStart, rest)
    IN  IF /\ CharAt(s, p) = "[" /\ CharAt(s, p + 1) = "["
           /\ n > 0
           /\ CharAt(s, p + 2 + n) = "]" /\ CharAt(s, p + 3 + n) = "]"
        THEN n + 4
        ELSE 0

\* LIST_REF_REGEX.exec(s) with lastIndex = from: the leftmost match at or after
\* `from`, and the lastIndex it leaves (0 after a failed search)
RegexExec(s, from, rest) ==
    LET hits == {p \in from..(Len(s) - 1) : RefMatchLength(s, p, rest) > 0}
    IN  IF hits = {} THEN [found |-> FALSE, lastIndex |-> 0]
        ELSE LET p == CHOOSE h \in hits : \A g \in hits : h <= g
                 n == RefMatchLength(s, p, rest)
             IN  [found |-> TRUE, index |-> p, length |-> n,
                  name |-> Slice(s, p + 2, p + n - 2), lastIndex |-> p + n]

\* [A-Za-z0-9_$]
ParsedNameStart == Letters \cup Digits \cup {"_", "$"}

\* [\w$-]
ParsedNameRest == Letters \cup Digits \cup {"_", "$", "-"}

\* parseListName: "" stands for null
parseListName(trimmedLine) ==
    LET line == IF StartsWith(trimmedLine, "async ")
                THEN TrimStart(SliceFrom(trimmedLine, 6))
                ELSE trimmedLine
        n == IdentLength(line, 0, ParsedNameStart, ParsedNameRest)
    IN  Slice(line, 0, n)

----------------------------------------------------------------------------
(* Definitions and references. *)

EmptyMap == [k \in {} |-> 0]

\* Map.prototype.set: a later set of the same key replaces the value
MapSet(map, key, value) ==
    [k \in DOMAIN map \cup {key} |-> IF k = key THEN value ELSE map[k]]

\* definitions.set(name, line.range.start): the position is (lineIndex, 0)
DefinitionsSet(definitions, name, lineIndex) == MapSet(definitions, name, lineIndex)

\* one iteration of the loop of collectListDefinitions (editor analyzer)
DefinitionsStep(definitions, text_, lineIndex) ==
    LET trimmed == Trim(text_)
    IN  IF trimmed = "" \/ StartsWith(trimmed, "//") \/ StartsWith(trimmed, "<")
        THEN definitions
        ELSE IF CharAt(text_, 0) \notin WhiteSpace
        THEN LET listName == parseListName(trimmed)
             IN  IF listName # "" /\ ~StartsWith(listName, "$")
                 THEN DefinitionsSet(definitions, listName, lineIndex)
                 ELSE definitions
        ELSE IF BlockHeaderName(trimmed, NameRest) # ""
        THEN IF ~StartsWith(BlockHeaderName(trimmed, NameRest), "$")
             THEN DefinitionsSet(definitions, BlockHeaderName(trimmed, NameRest), lineIndex)
             ELSE definitions
        ELSE IF ShorthandName(trimmed, NameRest) # ""
        THEN DefinitionsSet(definitions, ShorthandName(trimmed, NameRest), lineIndex)
        ELSE definitions

RECURSIVE DefinitionsLoop(_, _, _, _)
DefinitionsLoop(lines, lineIndex, limit, definitions) ==
    IF lineIndex >= limit THEN definitions
    ELSE DefinitionsLoop(lines, lineIndex + 1, limit,
                         DefinitionsStep(definitions, lines[lineIndex + 1], lineIndex))

Min(a, b) == IF a <= b THEN a ELSE b

Max(a, b) == IF a >= b THEN a ELSE b

\* a scan that runs over the whole document, markup region included
collectListDefinitionsWholeDocument(lines) ==
    DefinitionsLoop(lines, 0, Len(lines), EmptyMap)

collectListDefinitions(lines) ==
    DefinitionsLoop(lines, 0, Min(Len(lines), findHtmlStart(lines)), EmptyMap)

\* one iteration of the loop of collectListDefinitions (src/extension.js)
PlainDefinitionsStep(definitions, text_, lineIndex) ==
    LET trimmed == Trim(text_)
    IN  IF trimmed = "" \/ StartsWith(trimmed, "//") \/ StartsWith(trimmed, "<")
        THEN definitions
        ELSE IF BlockHeaderName(trimmed, NameRestPlain) # ""
        THEN IF ~StartsWith(BlockHeaderName(trimmed, NameRestPlain), "$")
             THEN DefinitionsSet(definitions, BlockHeaderName(trimmed, NameRestPlain),
                                 lineIndex)
             ELSE definitions
        ELSE IF ShorthandName(trimmed, NameRestPlain) # ""
        THEN DefinitionsSet(definitions, ShorthandName(trimmed, NameRestPlain), lineIndex)
        ELSE definitions

RECURSIVE PlainDefinitionsLoop(_, _, _)
PlainDefinitionsLoop(lines, lineIndex, definitions) ==
    IF lineIndex >= Len(lines) THEN definitions
    ELSE PlainDefinitionsLoop(lines, lineIndex + 1,
                              PlainDefinitionsStep(definitions, lines[lineIndex + 1],
                                                   lineIndex))

plainCollectListDefinitions(lines) == PlainDefinitionsLoop(lines, 0, EmptyMap)

\* a reference whose end leaves out the closing brackets
ReferenceRecordShort(match, lineIndex) ==
    [name |-> match.name, line |-> lineIndex, start |-> match.index,
     end |-> match.index + Len(match.name) + 2]

\* references.push({name, line, start, end})
ReferenceRecord(match, lineIndex) ==
    [name |-> match.name, line |-> lineIndex, start |-> match.index,
     end |-> match.index + match.length]

\* while ((match = LIST_REF_REGEX.exec(text))) { references.push(...) }
RECURSIVE ScanReferences(_, _, _, _)
ScanReferences(line, lineIndex, from, rest) ==
    LET match == RegexExec(line, from, rest)
    IN  IF ~match.found THEN <<>>
        ELSE <<ReferenceRecord(match, lineIndex)>>
                 \o ScanReferences(line, lineIndex, match.lastIndex, rest)

\* a scan that starts where the previous use of the regex stopped
KeepLastIndex(current) == current

\* LIST_REF_REGEX.lastIndex = 0, before each line is scanned
ResetLastIndex(current) == 0

\* the loop over the lines; `current` is LIST_REF_REGEX.lastIndex on entry, and a
\* finished scan of a line leaves it 0
RECURSIVE ReferencesLoop(_, _, _, _)
ReferencesLoop(lines, lineIndex, current, rest) ==
    IF lineIndex >= Len(lines) THEN <<>>
    ELSE ScanReferences(lines[lineIndex + 1], lineIndex, ResetLastIndex(current), rest)
             \o ReferencesLoop(lines, lineIndex + 1, 0, rest)

\* collectListReferences: the references, and the lastIndex the call leaves
collectListReferences(lines, current, rest) ==
    [references |-> ReferencesLoop(lines, 0, current, rest),
     lastIndex |-> IF Len(lines) = 0 THEN current ELSE 0]

----------------------------------------------------------------------------
(* The rules of the analyzer. *)

\* a stripComment that keeps the comment
stripNoComment(text_) == text_

stripComment(text_) ==
    LET index == IndexOf(text_, "//")
    IN  IF index = -1 THEN text_ ELSE Slice(text_, 0, index)

\* \w
WordChars == Letters \cup Digits \cup {"_"}

\* /\b=>\s*$/.test(trimmedLine): "=>" at the end, directly after a word character
isFunctionListStart(trimmedLine) ==
    /\ trimmedLine # ""
    /\ \E i \in 1..(Len(trimmedLine) - 2) :
          /\ CharAt(trimmedLine, i - 1) \in WordChars
          /\ CharAt(trimmedLine, i) = "="
          /\ CharAt(trimmedLine, i + 1) = ">"
          /\ \A j \in (i + 2)..(Len(trimmedLine) - 1) :
                CharAt(trimmedLine, j) \in WhiteSpace

\* a qualifying test that does not look at a following ">"
IsSingleEqualsAtIgnoringArrow(text_, i) ==
    LET prev == CharAt(text_, i - 1)
        next == CharAt(text_, i + 1)
    IN  /\ CharAt(text_, i) = "="
        /\ ~(prev = "=" \/ next = "=")
        /\ ~(prev = "!" \/ prev = ">" \/ prev = "<")

\* the qualifying test of hasSingleEquals / replaceFirstSingleEquals at index i
IsSingleEqualsAt(text_, i) ==
    LET prev == CharAt(text_, i - 1)
        next == CharAt(text_, i + 1)
    IN  /\ CharAt(text_, i) = "="
        /\ ~(prev = "=" \/ next = "=")
        /\ ~(prev = "!" \/ prev = ">" \/ prev = "<")
        /\ next # ">"

hasSingleEquals(text_) ==
    \E i \in 0..(Len(text_) - 1) : IsSingleEqualsAt(text_, i)

\* /\[([^\]]+)\]/g from index `from`: the leftmost "[", one or more characters
\* other than "]", "]"
BracketExec(s, from) ==
    LET hits == {p \in from..(Len(s) - 1) :
                    /\ CharAt(s, p) = "["
                    /\ CharAt(s, p + 1) # "]"
                    /\ IndexOf(SliceFrom(s, p + 1), "]") >= 1}
    IN  IF hits = {} THEN [found |-> FALSE]
        ELSE LET p == CHOOSE h \in hits : \A g \in hits : h <= g
                 close == p + 1 + IndexOf(SliceFrom(s, p + 1), "]")
             IN  [found |-> TRUE, index |-> p, end |-> close + 1,
                  content |-> Slice(s, p + 1, close)]

RECURSIVE IfElseLoop(_, _)
IfElseLoop(text_, from) ==
    LET match == BracketExec(text_, from)
    IN  IF ~match.found THEN <<>>
        ELSE LET content == match.content
                 questionIndex == IndexOf(content, "?")
                 colonIndex == IndexOf(content, ":")
             IN  (IF questionIndex = -1 \/ colonIndex = -1 THEN <<>>
                  ELSE IF hasSingleEquals(Slice(content, 0, questionIndex))
                  THEN <<[start |-> match.index, end |-> match.end]>>
                  ELSE <<>>)
                 \o IfElseLoop(text_, match.end)

findIfElseSingleEquals(text_) == IfElseLoop(text_, 0)

\* new vscode.Diagnostic(new vscode.Range(...), message, Warning), no code
ReferenceDiagnostic(ref) ==
    [line |-> ref.line, start |-> ref.start, end |-> ref.end,
     message |-> "Unknown list reference: " \o ref.name, code |-> ""]

createDiagnostic(line, start, end, message, code) ==
    [line |-> line, start |-> start, end |-> Max(start + 1, end),
     message |-> message, code |-> code]

\* the reference is flagged when its name IS defined
IsUnknownInverted(definitions, ref) == ref.name \in DOMAIN definitions

\* !definitions.has(ref.name)
IsUnknown(definitions, ref) == ref.name \notin DOMAIN definitions

\* references.forEach((ref) => { if (!definitions.has(ref.name)) push })
RECURSIVE UnknownReferences(_, _, _)
UnknownReferences(definitions, references, i) ==
    IF i > Len(references) THEN <<>>
    ELSE (IF IsUnknown(definitions, references[i])
          THEN <<ReferenceDiagnostic(references[i])>>
          ELSE <<>>)
         \o UnknownReferences(definitions, references, i + 1)

\* functionIndentLevel = null
NoFunction == -1

\* the duplicate rule on one line: the findings and the new listNameIndex
DuplicateRule(cfg, index, indent, commentFreeTrimmed, listNameIndex) ==
    LET listName == parseListName(commentFreeTrimmed)
    IN  IF cfg.checkDuplicates /\ indent = "" /\ listName # ""
        THEN IF listName \in DOMAIN listNameIndex
             THEN [found |-> <<createDiagnostic(index, 0, Len(listName),
                                   "Duplicate top-level list name.",
                                   "perchance.duplicateListName")>>,
                   names |-> listNameIndex]
             ELSE [found |-> <<>>, names |-> MapSet(listNameIndex, listName, index)]
        ELSE [found |-> <<>>, names |-> listNameIndex]

\* an indentation rule that does not look at its toggle
IndentationRuleAlways(cfg, index, indent) ==
    IF indent # ""
    THEN (IF Includes(indent, "\t") /\ Includes(indent, " ")
          THEN <<createDiagnostic(index, 0, Len(indent),
                     "Mixed tabs and spaces in indentation.",
                     "perchance.indentationMixed")>>
          ELSE <<>>)
         \o
         (IF (Len(indent) - CountInString(indent, "\t")) % 2 # 0
          THEN <<createDiagnostic(index, 0, Len(indent),
                     "Indentation should use tabs or multiples of two spaces.",
                     "perchance.indentationSpacing")>>
          ELSE <<>>)
    ELSE <<>>

\* an indentation rule without the mixed-indentation finding
IndentationRuleSpacingOnly(cfg, index, indent) ==
    IF cfg.checkIndentation /\ indent # "" /\ (Len(indent) - CountInString(indent, "\t")) % 2 # 0
    THEN <<createDiagnostic(index, 0, Len(indent),
               "Indentation should use tabs or multiples of two spaces.",
               "perchance.indentationSpacing")>>
    ELSE <<>>

IndentationRule(cfg, index, indent) ==
    IF cfg.checkIndentation /\ indent # ""
    THEN (IF Includes(indent, "\t") /\ Includes(indent, " ")
          THEN <<createDiagnostic(index, 0, Len(indent),
                     "Mixed tabs and spaces in indentation.",
                     "perchance.indentationMixed")>>
          ELSE <<>>)
         \o
         (IF (Len(indent) - CountInString(indent, "\t")) % 2 # 0
          THEN <<createDiagnostic(index, 0, Len(indent),
                     "Indentation should use tabs or multiples of two spaces.",
                     "perchance.indentationSpacing")>>
          ELSE <<>>)
    ELSE <<>>

\* findings at the columns of the content, the indentation left out
RECURSIVE IfElseDiagnosticsNoIndent(_, _, _, _)
IfElseDiagnosticsNoIndent(index, indent, warnings, i) ==
    IF i > Len(warnings) THEN <<>>
    ELSE <<createDiagnostic(index, warnings[i].start, warnings[i].end,
                            "If/else conditions should use == instead of =.",
                            "perchance.ifElseSingleEquals")>>
         \o IfElseDiagnosticsNoIndent(index, indent, warnings, i + 1)

RECURSIVE IfElseDiagnostics(_, _, _, _)
IfElseDiagnostics(index, indent, warnings, i) ==
    IF i > Len(warnings) THEN <<>>
    ELSE <<createDiagnostic(index, Len(indent) + warnings[i].start,
                            Len(indent) + warnings[i].end,
                            "If/else conditions should use == instead of =.",
                            "perchance.ifElseSingleEquals")>>
         \o IfElseDiagnostics(index, indent, warnings, i + 1)

IfElseRule(cfg, index, indent, indentLevel, functionIndentLevel, commentFree) ==
    LET skipPerchanceBlocks ==
            functionIndentLevel # NoFunction /\ indentLevel > functionIndentLevel
    IN  IF cfg.checkIfElseEquals /\ ~skipPerchanceBlocks
        THEN IfElseDiagnostics(index, indent, findIfElseSingleEquals(commentFree), 1)
        ELSE <<>>

\* the loop of analyzeDocument over the lines before htmlStart
RECURSIVE AnalyzeLoop(_, _, _, _, _, _)
AnalyzeLoop(lines, index, htmlStart, cfg, listNameIndex, functionIndentLevel) ==
    IF index >= htmlStart THEN <<>>
    ELSE
      LET line == lines[index + 1]
          trimmed == Trim(line)
      IN  IF trimmed = "" \/ StartsWith(trimmed, "//")
          THEN AnalyzeLoop(lines, index + 1, htmlStart, cfg, listNameIndex,
                           functionIndentLevel)
          ELSE
            LET indent == IndentOf(line)
                indentLevel == countIndentLevel(indent)
                content == SliceFrom(line, Len(indent))
                commentFree == stripComment(content)
                commentFreeTrimmed == Trim(commentFree)
                closed == IF functionIndentLevel # NoFunction
                             /\ indentLevel <= functionIndentLevel
                          THEN NoFunction ELSE functionIndentLevel
                level == IF isFunctionListStart(commentFreeTrimmed)
                         THEN indentLevel ELSE closed
                dup == DuplicateRule(cfg, index, indent, commentFreeTrimmed,
                                     listNameIndex)
            IN  dup.found
                \o IndentationRule(cfg, index, indent)
                \o IfElseRule(cfg, index, indent, indentLevel, level, commentFree)
                \o AnalyzeLoop(lines, index + 1, htmlStart, cfg, dup.names, level)

\* a scan of every line of the document
AnalyzedLimitWholeDocument(lines) == Len(lines)

\* the lines the rules of analyzeDocument scan: [0, htmlStart)
AnalyzedLimit(lines) == findHtmlStart(lines)

\* analyzeDocument(document, config): the diagnostics and the lastIndex it leaves
analyzeDocument(lines, cfg, current) ==
    LET definitions == collectListDefinitions(lines)
        collected == collectListReferences(lines, current, NameRest)
        unknown == UnknownReferences(definitions, collected.references, 1)
    IN  [diagnostics |->
             IF ~cfg.checkDuplicates /\ ~cfg.checkIndentation /\ ~cfg.checkIfElseEquals
             THEN unknown
             ELSE unknown \o AnalyzeLoop(lines, 0, AnalyzedLimit(lines), cfg, EmptyMap,
                                         NoFunction),
         lastIndex |-> collected.lastIndex]

\* updateDiagnostics of src/extension.js: the diagnostics set on the collection
plainUpdateDiagnostics(lines, current) ==
    LET definitions == plainCollectListDefinitions(lines)
        collected == collectListReferences(lines, current, NameRestPlain)
    IN  [diagnostics |-> UnknownReferences(definitions, collected.references, 1),
         lastIndex |-> collected.lastIndex]

----------------------------------------------------------------------------
(* The quick fix of the single-equals rule. *)

\* replaceFirstSingleEquals(text, replacement): "" stands for null
replaceFirstSingleEquals(text_, replacement) ==
    LET hits == {i \in 0..(Len(text_) - 1) : IsSingleEqualsAt(text_, i)}
    IN  IF hits = {} THEN ""
        ELSE LET i == CHOOSE h \in hits : \A g \in hits : h <= g
             IN  Slice(text_, 0, i) \o replacement \o SliceFrom(text_, i + 1)

\* [^\]]+\?[^\]]+:[^\]]+ matches the whole of a content without "]"
IsTernaryShaped(content) ==
    \E q \in 1..(Len(content) - 4) :
        /\ CharAt(content, q) = "?"
        /\ \E c \in (q + 2)..(Len(content) - 2) : CharAt(content, c) = ":"

\* lineText.match(/\[([^\]]+\?[^\]]+:[^\]]+)\]/): the leftmost match
TernaryMatch(lineText) ==
    LET Close(p) == p + 1 + IndexOf(SliceFrom(lineText, p + 1), "]")
        hits == {p \in 0..(Len(lineText) - 1) :
                    /\ CharAt(lineText, p) = "["
                    /\ Includes(SliceFrom(lineText, p + 1), "]")
                    /\ IsTernaryShaped(Slice(lineText, p + 1, Close(p)))}
    IN  IF hits = {} THEN [found |-> FALSE]
        ELSE LET p == CHOOSE h \in hits : \A g \in hits : h <= g
             IN  [found |-> TRUE, index |-> p,
                  whole |-> Slice(lineText, p, Close(p) + 1),
                  block |-> Slice(lineText, p + 1, Close(p))]

\* a replacement string of String.prototype.replace with a string pattern, its
\* patterns substituted: $$ is "$", $& the match, $` the text before the match,
\* $' the text after it
RECURSIVE ExpandReplacement(_, _, _, _)
ExpandReplacement(replacement, matched, before, after) ==
    IF replacement = "" THEN ""
    ELSE LET next == CharAt(replacement, 1)
         IN  IF CharAt(replacement, 0) = "$" /\ next \in {"$", "&", "`", "'"}
             THEN (CASE next = "$" -> "$"
                     [] next = "&" -> matched
                     [] next = "`" -> before
                     [] next = "'" -> after)
                  \o ExpandReplacement(SliceFrom(replacement, 2), matched, before, after)
             ELSE CharAt(replacement, 0)
                  \o ExpandReplacement(SliceFrom(replacement, 1), matched, before, after)

\* s.replace(pattern, replacement) with a string pattern: the first occurrence
StringReplace(s, pattern, replacement) ==
    LET at == IndexOf(s, pattern)
    IN  IF at = -1 THEN s
        ELSE LET before == Slice(s, 0, at)
                 after == SliceFrom(s, at + Len(pattern))
             IN  before \o ExpandReplacement(replacement, pattern, before, after) \o after

\* replaceSingleEqualsInIfElse(lineText): "" stands for null
replaceSingleEqualsInIfElse(lineText) ==
    LET match == TernaryMatch(lineText)
    IN  IF ~match.found THEN ""
        ELSE LET block == match.block
                 questionIndex == IndexOf(block, "?")
                 conditionFixed ==
                     replaceFirstSingleEquals(Slice(block, 0, questionIndex), "==")
             IN  IF questionIndex = -1 \/ conditionFixed = "" THEN ""
                 ELSE StringReplace(lineText, match.whole,
                          "[" \o conditionFixed \o SliceFrom(block, questionIndex) \o "]")

----------------------------------------------------------------------------
(* The batch validator, scripts/validate-examples.js. *)

\* [A-Za-z0-9_$-]
FunctionNameRest == Letters \cup Digits \cup {"_", "$", "-"}

\* [A-Za-z_][A-Za-z0-9_$-]*\s*\([^)]*\)\s*=>\s*$ matched at index i
FunctionHeaderFrom(s, i) ==
    LET n == IdentLength(s, i, NameStart, FunctionNameRest)
        open == i + n + RunLength(s, i + n, WhiteSpace)
        close == IndexOf(SliceFrom(s, open + 1), ")")
        arrow == open + 1 + close + 1
                     + RunLength(s, open + 1 + close + 1, WhiteSpace)
    IN  /\ n > 0
        /\ CharAt(s, open) = "("
        /\ close # -1
        /\ CharAt(s, arrow) = "=" /\ CharAt(s, arrow + 1) = ">"
        /\ arrow + 2 + RunLength(s, arrow + 2, WhiteSpace) = Len(s)

\* FUNCTION_HEADER_REGEX.test(trimmedLine)
IsFunctionHeader(trimmedLine) ==
    \/ FunctionHeaderFrom(trimmedLine, 0)
    \/ /\ StartsWith(trimmedLine, "async")
       /\ RunLength(trimmedLine, 5, WhiteSpace) > 0
       /\ FunctionHeaderFrom(trimmedLine, 5 + RunLength(trimmedLine, 5, WhiteSpace))

isListHeaderLine(trimmedLine) ==
    /\ trimmedLine # ""
    /\ \/ BlockHeaderName(trimmedLine, NameRest) # ""
       \/ ShorthandName(trimmedLine, NameRest) # ""
       \/ IsDollarShorthand(trimmedLine, NameRest)
       \/ IsFunctionHeader(trimmedLine)

\* a warning of the validator; its line is 1-based
Warning(index, code, message) ==
    [line |-> index + 1, code |-> code, message |-> message]

\* the duplicate rule of analyzePerchance on a zero-indentation line
BatchDuplicateRule(index, trimmed, listNameIndex) ==
    LET listName == parseListName(trimmed)
    IN  IF listName # "" /\ ~StartsWith(listName, "$")
        THEN IF listName \in DOMAIN listNameIndex
             THEN [found |-> <<Warning(index, "duplicate-list",
                                   "Duplicate top-level list name: " \o listName)>>,
                   names |-> listNameIndex]
             ELSE [found |-> <<>>, names |-> MapSet(listNameIndex, listName, index)]
        ELSE [found |-> <<>>, names |-> listNameIndex]

\* an odd-indentation test that counts the tabs with the spaces
BatchIndentationRuleCountingTabs(index, indent) ==
    (IF Includes(indent, "\t") /\ Includes(indent, " ")
     THEN <<Warning(index, "mixed-indent", "Mixed tabs and spaces in indentation")>>
     ELSE <<>>)
    \o
    (IF Len(indent) % 2 # 0
     THEN <<Warning(index, "odd-indent",
                "Indentation should use tabs or multiples of two spaces")>>
     ELSE <<>>)

\* the indentation rule of analyzePerchance on an indented line
BatchIndentationRule(index, indent) ==
    (IF Includes(indent, "\t") /\ Includes(indent, " ")
     THEN <<Warning(index, "mixed-indent", "Mixed tabs and spaces in indentation")>>
     ELSE <<>>)
    \o
    (IF (Len(indent) - CountInString(indent, "\t")) % 2 # 0
     THEN <<Warning(index, "odd-indent",
                "Indentation should use tabs or multiples of two spaces")>>
     ELSE <<>>)

\* one single-equals warning for each hit of findIfElseSingleEquals
BatchIfElseRule(index, commentFree) ==
    [i \in 1..Len(findIfElseSingleEquals(commentFree)) |->
        Warning(index, "single-equals",
                "If/else conditions should use == instead of =")]

\* the first loop of analyzePerchance, over the lines before htmlStart
RECURSIVE BatchListLoop(_, _, _, _)
BatchListLoop(lines, index, htmlStart, listNameIndex) ==
    IF index >= htmlStart THEN <<>>
    ELSE
      LET line == lines[index + 1]
          trimmed == Trim(line)
      IN  IF trimmed = "" \/ StartsWith(trimmed, "//")
          THEN BatchListLoop(lines, index + 1, htmlStart, listNameIndex)
          ELSE
            LET indent == IndentOf(line)
                commentFree == stripComment(SliceFrom(line, Len(indent)))
                dup == IF indent = ""
                       THEN BatchDuplicateRule(index, trimmed, listNameIndex)
                       ELSE [found |-> BatchIndentationRule(index, indent),
                             names |-> listNameIndex]
            IN  dup.found
                \o BatchIfElseRule(index, commentFree)
                \o BatchListLoop(lines, index + 1, htmlStart, dup.names)

\* a loop over the markup region that goes on after its first finding
RECURSIVE BatchHtmlLoopNoBreak(_, _)
BatchHtmlLoopNoBreak(lines, index) ==
    IF index >= Len(lines) THEN <<>>
    ELSE LET trimmed == Trim(lines[index + 1])
         IN  (IF trimmed # "" /\ ~StartsWith(trimmed, "<!--") /\ isListHeaderLine(trimmed)
              THEN <<Warning(index, "list-after-html",
                             "List header appears after HTML start")>>
              ELSE <<>>)
             \o BatchHtmlLoopNoBreak(lines, index + 1)

\* the second loop of analyzePerchance, over the lines from htmlStart on
RECURSIVE BatchHtmlLoop(_, _)
BatchHtmlLoop(lines, index) ==
    IF index >= Len(lines) THEN <<>>
    ELSE LET trimmed == Trim(lines[index + 1])
         IN  IF trimmed = "" \/ StartsWith(trimmed, "<!--")
             THEN BatchHtmlLoop(lines, index + 1)
             ELSE IF isListHeaderLine(trimmed)
             THEN <<Warning(index, "list-after-html",
                            "List header appears after HTML start")>>
             ELSE BatchHtmlLoop(lines, index + 1)

\* analyzePerchance(content), content being the lines joined by newlines
analyzePerchance(lines) ==
    LET htmlStart == findHtmlStart(lines)
    IN  BatchListLoop(lines, 0, htmlStart, EmptyMap) \o BatchHtmlLoop(lines, htmlStart)

\* the content of a file: its lines joined by newlines
RECURSIVE JoinLines(_)
JoinLines(lines) ==
    IF Len(lines) = 0 THEN ""
    ELSE IF Len(lines) = 1 THEN lines[1]
    ELSE lines[1] \o "\n" \o JoinLines(Tail(lines))

UpperCase == "ABCDEFGHIJKLMNOPQRSTUVWXYZ"

LowerCase == "abcdefghijklmnopqrstuvwxyz"

UpperCaseLetters == {CharAt(UpperCase, i) : i \in 0..(Len(UpperCase) - 1)}

\* the i flag of a regex: letters compare by their lower case
RECURSIVE ToLowerCase(_)
ToLowerCase(s) ==
    IF s = "" THEN ""
    ELSE LET c == CharAt(s, 0)
         IN  (IF c \in UpperCaseLetters THEN CharAt(LowerCase, IndexOf(UpperCase, c)) ELSE c)
             \o ToLowerCase(SliceFrom(s, 1))

\* the index just after the match of /<name\b[^>]*>/i at p, -1 when none
OpenTagEnd(content, p, name) ==
    LET n == Len(name) + 1
        rest == SliceFrom(content, p + n)
    IN  IF /\ ToLowerCase(Slice(content, p, p + n)) = "<" \o name
           /\ CharAt(content, p + n) \notin WordChars
           /\ Includes(rest, ">")
        THEN p + n + IndexOf(rest, ">") + 1
        ELSE -1

\* (content.match(/<name\b[^>]*>/gi) || []).length, counted from index `from`
RECURSIVE CountOpenTags(_, _, _)
CountOpenTags(content, from, name) ==
    LET hits == {p \in from..(Len(content) - 1) : OpenTagEnd(content, p, name) # -1}
    IN  IF hits = {} THEN 0
        ELSE 1 + CountOpenTags(content,
                     OpenTagEnd(content, CHOOSE p \in hits : \A q \in hits : p <= q, name),
                     name)

\* (content.match(/literal/g) || []).length for a literal pattern, from `from`,
\* with or without the i flag
RECURSIVE CountMatches(_, _, _, _)
CountMatches(content, from, literal, ignoreCase) ==
    LET rest == SliceFrom(content, from)
        at == IndexOf(IF ignoreCase THEN ToLowerCase(rest) ELSE rest, literal)
    IN  IF at = -1 THEN 0
        ELSE 1 + CountMatches(content, from + at + Len(literal), literal, ignoreCase)

\* a file-level warning of analyzeHtml when the counts differ
CountMismatch(open, close, code, what) ==
    IF open # close
    THEN <<[line |-> 0, code |-> code,
            message |-> what \o " count mismatch (open " \o ToString(open)
                            \o ", close " \o ToString(close) \o ")"]>>
    ELSE <<>>

\* a script count that takes the tag name as it is written
ScriptMismatchCaseSensitive(content) ==
    CountMismatch(CountOpenTags(content, 0, "script"),
                  CountMatches(content, 0, "</script>", FALSE),
                  "script-tag", "Script tag")

ScriptMismatch(content) ==
    CountMismatch(CountOpenTags(content, 0, "script"),
                  CountMatches(content, 0, "</script>", TRUE),
                  "script-tag", "Script tag")

StyleMismatch(content) ==
    CountMismatch(CountOpenTags(content, 0, "style"),
                  CountMatches(content, 0, "</style>", TRUE),
                  "style-tag", "Style tag")

CommentMismatch(content) ==
    CountMismatch(CountMatches(content, 0, "<!--", FALSE),
                  CountMatches(content, 0, "-->", FALSE),
                  "html-comment", "HTML comment")

analyzeHtml(content) ==
    ScriptMismatch(content) \o StyleMismatch(content) \o CommentMismatch(content)

(* The command line and the file selection of the batch validator. *)

\* the value of a run of decimal digits
RECURSIVE DigitsValue(_)
DigitsValue(digits) ==
    IF digits = "" THEN 0
    ELSE 10 * DigitsValue(Slice(digits, 0, Len(digits) - 1))
         + IndexOf("0123456789", CharAt(digits, Len(digits) - 1))

\* Number.parseInt(s, 10): white space, a sign, the leading digits; NaN when
\* there is no digit
ParseInt(s) ==
    LET trimmed == TrimStart(s)
        signed == CharAt(trimmed, 0) \in {"+", "-"}
        from == IF signed THEN 1 ELSE 0
        n == RunLength(trimmed, from, Digits)
        value == DigitsValue(Slice(trimmed, from, from + n))
    IN  IF n = 0 THEN [nan |-> TRUE, value |-> 0]
        ELSE [nan |-> FALSE,
              value |-> IF CharAt(trimmed, 0) = "-" THEN 0 - value ELSE value]

\* let topN = 10
DefaultTopN == 10

\* the loop of parseArgs from args[i] on; "" stands for a null reportPath
RECURSIVE ParseArgsLoop(_, _, _, _)
ParseArgsLoop(args, i, topN, reportPath) ==
    IF i >= Len(args) THEN [topN |-> topN, reportPath |-> reportPath]
    ELSE LET value == args[i + 1]
             hasNext == i + 1 < Len(args) /\ args[i + 2] # ""
         IN  IF value = "--top" /\ hasNext
             THEN ParseArgsLoop(args, i + 2, ParseInt(args[i + 2]), reportPath)
             ELSE IF value = "--report" /\ hasNext
             THEN ParseArgsLoop(args, i + 2, topN, args[i + 2])
             ELSE ParseArgsLoop(args, i + 1, topN, reportPath)

\* a final test of topN that lets zero through
FinalTopNAllowingZero(topN) ==
    IF topN.nan \/ topN.value < 0 THEN DefaultTopN ELSE topN.value

\* if (!Number.isFinite(topN) || topN <= 0) topN = 10
FinalTopN(topN) ==
    IF topN.nan \/ topN.value <= 0 THEN DefaultTopN ELSE topN.value

\* parseArgs() on process.argv.slice(2)
parseArgs(args) ==
    LET parsed == ParseArgsLoop(args, 0, [nan |-> FALSE, value |-> DefaultTopN], "")
    IN  [topN |-> FinalTopN(parsed.topN), reportPath |-> parsed.reportPath]

\* s.endsWith(suffix)
EndsWith(s, suffix) ==
    Len(s) >= Len(suffix) /\ SliceFrom(s, Len(s) - Len(suffix)) = suffix

\* files.filter(...): the entries whose lower-cased name ends with ext
RECURSIVE FilterByExt(_, _)
FilterByExt(files_, ext) ==
    IF Len(files_) = 0 THEN <<>>
    ELSE (IF EndsWith(ToLowerCase(Head(files_).file), ext) THEN <<Head(files_)>> ELSE <<>>)
         \o FilterByExt(Tail(files_), ext)

\* the entry put into a list sorted by (a, b) => b.size - a.size: after every
\* entry that is not smaller, the sort being stable
InsertBySize(sorted, entry) ==
    LET ahead == {k \in 0..Len(sorted) :
                     \A j \in 1..k : sorted[j].size >= entry.size}
        k == CHOOSE a \in ahead : \A b \in ahead : a >= b
    IN  SubSeq(sorted, 1, k) \o <<entry>> \o SubSeq(sorted, k + 1, Len(sorted))

RECURSIVE SortBySize(_, _)
SortBySize(entries, sorted) ==
    IF Len(entries) = 0 THEN sorted
    ELSE SortBySize(Tail(entries), InsertBySize(sorted, Head(entries)))

\* getLargestByExt(files, ext, topN), the sizes being those statSync returns
getLargestByExt(files_, ext, topN) ==
    LET filtered == SortBySize(FilterByExt(files_, ext), <<>>)
    IN  SubSeq(filtered, 1, Min(topN, Len(filtered)))

\* the loop of provideDefinition over the references of the line at the position
RECURSIVE DefinitionScan(_, _, _, _, _)
DefinitionScan(lineText, character, from, definitions, rest) ==
    LET match == RegexExec(lineText, from, rest)
    IN  IF ~match.found THEN [found |-> FALSE, lastIndex |-> 0]
        ELSE IF /\ character >= match.index
                /\ character <= match.index + match.length
                /\ match.name \in DOMAIN definitions
        THEN [found |-> TRUE, name |-> match.name, target |-> definitions[match.name],
              lastIndex |-> match.lastIndex]
        ELSE DefinitionScan(lineText, character, match.lastIndex, definitions, rest)

\* the registered definition provider: collectListDefinitions, then provideDefinition
provideDefinition(lines, line, character, current) ==
    DefinitionScan(lines[line + 1], character, ResetLastIndex(current),
                   collectListDefinitions(lines), NameRest)

----------------------------------------------------------------------------
(* The document formatter. *)

\* " ".repeat(n)
RECURSIVE Spaces(_)
Spaces(n) == IF n <= 0 THEN "" ELSE " " \o Spaces(n - 1)

\* format.indentSize, format.trimTrailingWhitespace, format.normalizeListIndent
\* as config.get returns them when nothing is configured
DefaultFormat ==
    [indentSize |-> 2, trimTrailing |-> TRUE, normalizeIndent |-> TRUE]

\* src/extension.js reads no setting: two spaces, the text as it is
PlainFormat ==
    [indentSize |-> 2, trimTrailing |-> FALSE, normalizeIndent |-> TRUE]

\* an edit that puts one more space before the normalized text
TextEditIndentingFurther(lineIndex, normalized) ==
    [line |-> lineIndex, newText |-> " " \o normalized]

\* TextEdit.replace(line.range, normalized)
TextEdit(lineIndex, normalized) == [line |-> lineIndex, newText |-> normalized]

\* the loop of provideDocumentFormattingEdits from lineIndex on
RECURSIVE FormatLoop(_, _, _, _, _)
FormatLoop(lines, lineIndex, inListBlock, settings, rest) ==
    IF lineIndex >= Len(lines) THEN <<>>
    ELSE LET raw == lines[lineIndex + 1]
             text_ == IF settings.trimTrailing THEN TrimEnd(raw) ELSE raw
             trimmed == Trim(text_)
             normalized == Spaces(Max(1, settings.indentSize)) \o trimmed
         IN  IF trimmed = ""
             THEN FormatLoop(lines, lineIndex + 1, FALSE, settings, rest)
             ELSE IF StartsWith(trimmed, "//") \/ StartsWith(trimmed, "<")
             THEN FormatLoop(lines, lineIndex + 1, FALSE, settings, rest)
             ELSE IF BlockHeaderName(trimmed, rest) # ""
             THEN FormatLoop(lines, lineIndex + 1, TRUE, settings, rest)
             ELSE IF inListBlock /\ CharAt(text_, 0) \in WhiteSpace
             THEN (IF settings.normalizeIndent /\ text_ # normalized
                   THEN <<TextEdit(lineIndex, normalized)>>
                   ELSE <<>>)
                  \o FormatLoop(lines, lineIndex + 1, TRUE, settings, rest)
             ELSE FormatLoop(lines, lineIndex + 1, FALSE, settings, rest)

\* provideDocumentFormattingEdits(document) under the settings of the workspace
provideDocumentFormattingEdits(lines, settings) ==
    FormatLoop(lines, 0, FALSE, settings, NameRest)

\* src/extension.js: provideDocumentFormattingEdits(document)
plainProvideDocumentFormattingEdits(lines) ==
    FormatLoop(lines, 0, FALSE, PlainFormat, NameRestPlain)

\* the document after the editor has applied the edits, one replaced line each
ApplyEdits(lines, edits) ==
    [i \in DOMAIN lines |->
        IF \E k \in DOMAIN edits : edits[k].line = i - 1
        THEN (CHOOSE e \in {edits[k] : k \in DOMAIN edits} : e.line = i - 1).newText
        ELSE lines[i]]

----------------------------------------------------------------------------
(* Entry points applied to the document. *)

Idle == [op |-> "none"]

\* no entry for the document in the diagnostic collection
NoEntry == [set |-> FALSE]

Entry(diagnostics) == [set |-> TRUE, diagnostics |-> diagnostics]

\* the uris a document of the workspace may have
Uris == {"file:a", "file:b"}

LANGUAGE_ID == "perchance"

\* a document that is not open
Closed == [open |-> FALSE, languageId |-> "", text |-> <<>>, notified |-> FALSE]

\* no document is open and the collection is empty
NoEditor ==
    /\ textDocuments = [uri \in Uris |-> Closed]
    /\ activeTextEditor = ""
    /\ diagnosticCollection = [uri \in Uris |-> NoEntry]
    /\ adapter = "configurable"

\* The editor adapter: the handlers that activate registers.
\* updateDiagnostics(document, collection): the collection and the regex state
\* it leaves
updateDiagnostics(document, uri, entries, current, configuration) ==
    IF document.languageId # LANGUAGE_ID
    THEN [entries |-> entries, lastIndex |-> current]
    ELSE IF ~configuration.enableDiagnostics
    THEN [entries |-> [entries EXCEPT ![uri] = NoEntry], lastIndex |-> current]
    ELSE LET analyzed == analyzeDocument(document.text, configuration, current)
         IN  [entries |-> [entries EXCEPT ![uri] = Entry(analyzed.diagnostics)],
              lastIndex |-> analyzed.lastIndex]

\* src/extension.js: updateDiagnostics(document, collection)
plainUpdateDocument(document, uri, entries, current) ==
    IF document.languageId # LANGUAGE_ID
    THEN [entries |-> entries, lastIndex |-> current]
    ELSE LET updated == plainUpdateDiagnostics(document.text, current)
         IN  [entries |-> [entries EXCEPT ![uri] = Entry(updated.diagnostics)],
              lastIndex |-> updated.lastIndex]

\* updateDocumentDiagnostics of activate, in the source that is activated
updateDocumentDiagnostics(which, document, uri, entries, current, configuration) ==
    IF which = "plain"
    THEN plainUpdateDocument(document, uri, entries, current)
    ELSE updateDiagnostics(document, uri, entries, current, configuration)

\* the collection after activate: updateDocumentDiagnostics on the document of
\* the active editor, if there is one
Activated(which, docs, active, configuration) ==
    LET empty == [uri \in Uris |-> NoEntry]
    IN  IF active = "" THEN empty
        ELSE CHOOSE entries \in
                 {updateDocumentDiagnostics(which, document, active, none, 0,
                                            configuration).entries :
                     document \in {docs[active]}, none \in {empty}} : TRUE

FindHtmlStart ==
    /\ out' = [op |-> "findHtmlStart", result |-> findHtmlStart(text)]
    /\ UNCHANGED <<text, lastIndex, config, collection, argv, files, editor>>

CountIndentLevel ==
    \E index \in 0..(Len(text) - 1) :
        LET indent == IndentOf(text[index + 1])
        IN  /\ out' = [op |-> "countIndentLevel", indent |-> indent,
                       level |-> countIndentLevel(indent)]
            /\ UNCHANGED <<text, lastIndex, config, collection, argv, files, editor>>

\* findIfElseSingleEquals on one line of the text
FindIfElseSingleEquals ==
    \E index \in 0..(Len(text) - 1) :
        /\ out' = [op |-> "findIfElseSingleEquals", line |-> text[index + 1],
                   warnings |-> findIfElseSingleEquals(text[index + 1])]
        /\ UNCHANGED <<text, lastIndex, config, collection, argv, files, editor>>

\* replaceSingleEqualsInIfElse on one line of the text, as the quick fix calls it
ReplaceSingleEqualsInIfElse ==
    \E index \in 0..(Len(text) - 1) :
        /\ out' = [op |-> "replaceSingleEqualsInIfElse", line |-> text[index + 1],
                   updated |-> replaceSingleEqualsInIfElse(text[index + 1])]
        /\ UNCHANGED <<text, lastIndex, config, collection, argv, files, editor>>

\* collectListDefinitions, as the completion and hover providers call it
CollectListDefinitions ==
    /\ out' = [op |-> "collectListDefinitions",
               definitions |-> collectListDefinitions(text)]
    /\ UNCHANGED <<text, lastIndex, config, collection, argv, files, editor>>

CollectListReferences ==
    LET collected == collectListReferences(text, lastIndex, NameRest)
    IN  /\ out' = [op |-> "collectListReferences",
                   references |-> collected.references]
        /\ lastIndex' = collected.lastIndex
        /\ UNCHANGED <<text, config, collection, argv, files, editor>>

AnalyzeDocument ==
    LET analyzed == analyzeDocument(text, config, lastIndex)
    IN  /\ out' = [op |-> "analyzeDocument", diagnostics |-> analyzed.diagnostics]
        /\ lastIndex' = analyzed.lastIndex
        /\ UNCHANGED <<text, config, collection, argv, files, editor>>

\* analyzePerchance on the text of one example file
AnalyzePerchance ==
    /\ out' = [op |-> "analyzePerchance", warnings |-> analyzePerchance(text)]
    /\ UNCHANGED <<text, lastIndex, config, collection, argv, files, editor>>

\* isListHeaderLine on one trimmed line, with the outcome of each pattern
IsListHeaderLine ==
    \E index \in 0..(Len(text) - 1) :
        LET trimmedLine == Trim(text[index + 1])
        IN  /\ out' = [op |-> "isListHeaderLine", line |-> trimmedLine,
                       block |-> BlockHeaderName(trimmedLine, NameRest) # "",
                       shorthand |-> ShorthandName(trimmedLine, NameRest) # "",
                       dollar |-> IsDollarShorthand(trimmedLine, NameRest),
                       function |-> IsFunctionHeader(trimmedLine),
                       result |-> isListHeaderLine(trimmedLine)]
            /\ UNCHANGED <<text, lastIndex, config, collection, argv, files, editor>>

\* the arguments of a command line: the two options, a count, zero, a negative
\* number, a count followed by letters, a word, an empty argument
ArgTokens == {"--top", "--report", "2", "0", "-1", "3x", "x", ""}

ArgLists == UNION {[1..n -> ArgTokens] : n \in 0..MaxArgs}

\* the files of the examples directory in readdir order, each of a size
FileNames == <<"a.html", "B.HTML", "c.perchance", "d.html", "e.htm">>

FileSizes == {1, 2, 3}

FileLists ==
    {[i \in 1..Len(FileNames) |-> [file |-> FileNames[i], size |-> sizes[i]]] :
        sizes \in [1..Len(FileNames) -> FileSizes]}

\* command lines that ask for fewer files than there are, as many, and more
CountArgLists == {<<>>} \cup {<<"--top", count>> : count \in {"1", "2", "3x", "4"}}

\* parseArgs on a command line
ParseArgs ==
    /\ out' = [op |-> "parseArgs", topN |-> parseArgs(argv).topN,
               reportPath |-> parseArgs(argv).reportPath]
    /\ UNCHANGED <<text, lastIndex, config, collection, argv, files, editor>>

\* getLargestByExt as main calls it: on the files of the examples directory,
\* for a tracked extension, with the topN of parseArgs
GetLargestByExt ==
    \E ext \in {".html", ".perchance"} :
        /\ out' = [op |-> "getLargestByExt", ext |-> ext,
                   selected |-> getLargestByExt(files, ext, parseArgs(argv).topN)]
        /\ UNCHANGED <<text, lastIndex, config, collection, argv, files, editor>>

\* analyzeHtml on the content of one example file
AnalyzeHtml ==
    /\ out' = [op |-> "analyzeHtml", content |-> JoinLines(text),
               warnings |-> analyzeHtml(JoinLines(text))]
    /\ UNCHANGED <<text, lastIndex, config, collection, argv, files, editor>>

\* updateDiagnostics(document, collection) of the editor analyzer, on an open,
\* change or configuration event of the document
UpdateDiagnostics ==
    IF ~config.enableDiagnostics
    THEN /\ collection' = NoEntry
         /\ out' = [op |-> "updateDiagnostics", entered |-> lastIndex,
                    replaced |-> collection.set]
         /\ UNCHANGED <<text, lastIndex, config, argv, files, editor>>
    ELSE LET analyzed == analyzeDocument(text, config, lastIndex)
         IN  /\ collection' = Entry(analyzed.diagnostics)
             /\ out' = [op |-> "updateDiagnostics", entered |-> lastIndex,
                        replaced |-> collection.set]
             /\ lastIndex' = analyzed.lastIndex
             /\ UNCHANGED <<text, config, argv, files, editor>>

\* go to definition at (line, character)
ProvideDefinition ==
    \E line \in 0..(Len(text) - 1) :
        \E character \in 0..Len(text[line + 1]) :
            LET location == provideDefinition(text, line, character, lastIndex)
            IN  /\ out' = IF location.found
                          THEN [op |-> "provideDefinition", found |-> TRUE,
                                name |-> location.name, target |-> location.target]
                          ELSE [op |-> "provideDefinition", found |-> FALSE]
                /\ lastIndex' = location.lastIndex
                /\ UNCHANGED <<text, config, collection, argv, files, editor>>

\* src/extension.js: collectListReferences
PlainCollectListReferences ==
    LET collected == collectListReferences(text, lastIndex, NameRestPlain)
    IN  /\ out' = [op |-> "plainCollectListReferences",
                   references |-> collected.references]
        /\ lastIndex' = collected.lastIndex
        /\ UNCHANGED <<text, config, collection, argv, files, editor>>

\* src/extension.js: updateDiagnostics(document, collection)
PlainUpdateDiagnostics ==
    LET updated == plainUpdateDiagnostics(text, lastIndex)
    IN  /\ collection' = Entry(updated.diagnostics)
        /\ out' = [op |-> "plainUpdateDiagnostics", diagnostics |-> updated.diagnostics]
        /\ lastIndex' = updated.lastIndex
        /\ UNCHANGED <<text, config, argv, files, editor>>

\* the settings the formatter may find in the workspace; an indentSize below
\* one is raised to one
FormatSettings ==
    [indentSize : {0, 2}, trimTrailing : BOOLEAN, normalizeIndent : BOOLEAN]

\* Format Document: the provider's edits, applied by the editor
FormatDocument ==
    \E settings \in FormatSettings :
        LET edits == provideDocumentFormattingEdits(text, settings)
        IN  /\ text' = ApplyEdits(text, edits)
            /\ out' = [op |-> "formatDocument", settings |-> settings,
                       before |-> text, edits |-> edits]
            /\ UNCHANGED <<lastIndex, config, collection, argv, files, editor>>

\* src/extension.js: Format Document
PlainFormatDocument ==
    LET edits == plainProvideDocumentFormattingEdits(text)
    IN  /\ text' = ApplyEdits(text, edits)
        /\ out' = [op |-> "plainFormatDocument", settings |-> PlainFormat,
                   before |-> text, edits |-> edits]
        /\ UNCHANGED <<lastIndex, config, collection, argv, files, editor>>

\* the languages a document of the workspace may be in
LanguageIds == {LANGUAGE_ID, "plaintext"}

\* the texts a document may hold: a duplicate declaration with an unknown
\* reference, and an oddly indented single-equals condition
EditorTexts == {<<"a", "a[[b]]">>, <<" [b=1?a:b]">>}

\* the configuration after one setting of the "perchance" section is toggled:
\* the switch of all diagnostics, or the switch of the indentation rule
Toggled(configuration) ==
    {[configuration EXCEPT ![key] = ~@] :
        key \in {"enableDiagnostics", "checkIndentation"}}

\* workspace.onDidOpenTextDocument(updateDocumentDiagnostics)
OnDidOpenTextDocument ==
    \E uri \in Uris, languageId \in LanguageIds, lines \in EditorTexts :
        /\ ~textDocuments[uri].open
        /\ \E document \in {[open |-> TRUE, languageId |-> languageId,
                              text |-> lines, notified |-> TRUE]},
              entries \in {diagnosticCollection}, configuration \in {config} :
              \E updated \in {updateDocumentDiagnostics(adapter, document, uri,
                                  entries, lastIndex, configuration)} :
                  /\ textDocuments' = [textDocuments EXCEPT ![uri] = document]
                  /\ diagnosticCollection' = updated.entries
                  /\ lastIndex' = updated.lastIndex
        /\ out' = [op |-> "onDidOpenTextDocument", uri |-> uri]
        /\ UNCHANGED <<text, config, collection, argv, files, activeTextEditor,
                       adapter>>

\* workspace.onDidChangeTextDocument((event) => updateDocumentDiagnostics(event.document))
OnDidChangeTextDocument ==
    \E uri \in Uris, lines \in EditorTexts :
        /\ textDocuments[uri].open
        /\ \E document \in {[textDocuments[uri] EXCEPT !.text = lines,
                                                        !.notified = TRUE]},
              entries \in {diagnosticCollection}, configuration \in {config} :
              \E updated \in {updateDocumentDiagnostics(adapter, document, uri,
                                  entries, lastIndex, configuration)} :
                  /\ textDocuments' = [textDocuments EXCEPT ![uri] = document]
                  /\ diagnosticCollection' = updated.entries
                  /\ lastIndex' = updated.lastIndex
        /\ out' = [op |-> "onDidChangeTextDocument", uri |-> uri]
        /\ UNCHANGED <<text, config, collection, argv, files, activeTextEditor,
                       adapter>>

\* a close handler that leaves the collection as it is
OnDidCloseTextDocumentKeepingEntry ==
    \E uri \in Uris :
        /\ textDocuments[uri].open
        /\ textDocuments' = [textDocuments EXCEPT ![uri] = Closed]
        /\ activeTextEditor' = IF activeTextEditor = uri THEN "" ELSE activeTextEditor
        /\ out' = [op |-> "onDidCloseTextDocument", uri |-> uri]
        /\ UNCHANGED <<text, lastIndex, config, collection, argv, files,
                       diagnosticCollection, adapter>>

\* workspace.onDidCloseTextDocument((document) => diagnosticCollection.delete(document.uri))
OnDidCloseTextDocument ==
    \E uri \in Uris :
        /\ textDocuments[uri].open
        /\ textDocuments' = [textDocuments EXCEPT ![uri] = Closed]
        /\ activeTextEditor' = IF activeTextEditor = uri THEN "" ELSE activeTextEditor
        /\ diagnosticCollection' = [diagnosticCollection EXCEPT ![uri] = NoEntry]
        /\ out' = [op |-> "onDidCloseTextDocument", uri |-> uri]
        /\ UNCHANGED <<text, lastIndex, config, collection, argv, files, adapter>>

\* the user moves to the editor of another open document, or to none: activate
\* registers no handler for it
OnDidChangeActiveTextEditor ==
    \E uri \in Uris \cup {""} :
        /\ uri # activeTextEditor
        /\ uri # "" => textDocuments[uri].open
        /\ activeTextEditor' = uri
        /\ out' = [op |-> "onDidChangeActiveTextEditor", uri |-> uri]
        /\ UNCHANGED <<text, lastIndex, config, collection, argv, files,
                       textDocuments, diagnosticCollection, adapter>>

\* workspace.onDidChangeConfiguration, on a change that affects "perchance"
OnDidChangeConfiguration ==
    \E configuration \in Toggled(config) :
        /\ adapter = "configurable"
        /\ config' = configuration
        /\ IF activeTextEditor = ""
           THEN UNCHANGED <<diagnosticCollection, lastIndex>>
           ELSE \E document \in {textDocuments[activeTextEditor]},
                   entries \in {diagnosticCollection} :
                    \E updated \in {updateDocumentDiagnostics(adapter, document,
                                        activeTextEditor, entries, lastIndex,
                                        configuration)} :
                        /\ diagnosticCollection' = updated.entries
                        /\ lastIndex' = updated.lastIndex
        /\ out' = [op |-> "onDidChangeConfiguration", uri |-> activeTextEditor]
        /\ UNCHANGED <<text, collection, argv, files, textDocuments,
                       activeTextEditor, adapter>>

----------------------------------------------------------------------------
(* Specifications. *)

AllEnabled ==
    [enableDiagnostics |-> TRUE, checkDuplicates |-> TRUE,
     checkIndentation |-> TRUE, checkIfElseEquals |-> TRUE]

Configurations ==
    [enableDiagnostics : BOOLEAN, checkDuplicates : BOOLEAN,
     checkIndentation : BOOLEAN, checkIfElseEquals : BOOLEAN]

InitWith(documents, configurations) ==
    /\ text \in documents
    /\ config \in configurations
    /\ out = Idle
    /\ lastIndex = 0
    /\ collection = NoEntry
    /\ argv = <<>>
    /\ files = <<>>
    /\ NoEditor

\* one line: an indentation of tabs and spaces in any order, then an item
IndentDocuments == {<<indent \o "x">> : indent \in StringsUpTo({"\t", " "}, MaxIndent)}

InitIndent == InitWith(IndentDocuments, {AllEnabled})

NextIndent == CountIndentLevel

SpecIndent == InitIndent /\ [][NextIndent]_vars

BoundaryLines == {"", " ", "a", "<p>", " </p>", "<<<a>>>", "<<<<<a>", "<1<p", "a<p>"}

InitBoundary == InitWith(DocumentsOver(BoundaryLines, MaxBoundaryLines), {AllEnabled})

NextBoundary == FindHtmlStart

SpecBoundary == InitBoundary /\ [][NextBoundary]_vars

\* references: repeated, adjacent, nested in brackets, unterminated, hyphenated
ReferenceLines == {"a", "[[a]] [[b]]", "[[[a-b]]]", "a-b = [[a]", " [[b]][[a]]", "[[1]][[_]]"}

InitReferences == InitWith(DocumentsOver(ReferenceLines, MaxReferenceLines), {AllEnabled})

NextReferences ==
    \/ CollectListReferences
    \/ AnalyzeDocument
    \/ PlainCollectListReferences
    \/ PlainUpdateDiagnostics

SpecReferences == InitReferences /\ [][NextReferences]_vars

\* declarations: repeated, indented, "$"-prefixed, shorthand, after the boundary
DefinitionLines == {"a", " a", "$a", "a=b//a", "\tb=a", "", "<p>"}

InitDefinitions ==
    InitWith(DocumentsOver(DefinitionLines, MaxDefinitionLines), {AllEnabled})

NextDefinitions ==
    \/ CollectListDefinitions
    \/ AnalyzeDocument
    \/ AnalyzePerchance

SpecDefinitions == InitDefinitions /\ [][NextDefinitions]_vars

\* a list region, a blank line, a tag line and list syntax after it
RegionLines == {"a", "", "<p>[[b]]", " a=[[a]][b=1?a:b]"}

InitRegion == InitWith(DocumentsOver(RegionLines, MaxRegionLines), {AllEnabled})

NextRegion ==
    \/ CollectListDefinitions
    \/ CollectListReferences
    \/ AnalyzeDocument

SpecRegion == InitRegion /\ [][NextRegion]_vars

\* the characters a condition is made of here
ConditionChars == {"=", "!", "<", ">", "?", ":"}

\* one line: a bracketed span over the condition characters, alone, after
\* another span, or before an unbracketed tail
ConditionDocuments ==
    {<<before \o "[" \o content \o "]" \o after>> :
        before \in {"", "[=?:]"},
        content \in StringsUpTo(ConditionChars, MaxCondition),
        after \in {"", "=?:"}}

InitCondition == InitWith(ConditionDocuments, {AllEnabled})

NextCondition ==
    \/ FindIfElseSingleEquals

SpecCondition == InitCondition /\ [][NextCondition]_vars

\* function headers with and without a word character before "=>", bodies at
\* level 1, several spans on a line, a span cut by a comment, mixed and odd
\* indentation, an unknown reference
RuleLines ==
    {"f(x) =>", "g=>", "  [a=1?b:c]", "[a==1?b:c] [d=1?e:f]",
     " \t[[b]][a=1=2?b:c][d=1?e:f]//[g=1?h:i]"}

\* the configurations under which updateDiagnostics calls analyzeDocument
RuleConfigurations == {c \in Configurations : c.enableDiagnostics}

InitRules == InitWith(DocumentsOver(RuleLines, MaxRuleLines), RuleConfigurations)

NextRules ==
    \/ AnalyzeDocument

SpecRules == InitRules /\ [][NextRules]_vars

\* an indentation of tabs and spaces in any order before an item, before a
\* comment, alone on a blank line, before the tag that opens the markup region,
\* and inside the markup region
IndentRuleDocuments ==
    UNION {{<<indent \o "x">>, <<indent \o "//x">>, <<indent>>,
            <<"x", "", indent \o "<p>">>, <<"", "<p>", indent \o "x">>} :
           indent \in StringsUpTo({"\t", " "}, MaxIndentRun)}

InitIndentRule == InitWith(IndentRuleDocuments, {AllEnabled})

NextIndentRule ==
    \/ AnalyzeDocument
    \/ AnalyzePerchance

SpecIndentRule == InitIndentRule /\ [][NextIndentRule]_vars

\* the characters of the conditions the quick fix is tried on
FixConditionChars == {"=", "!", ">", "$", "&"}

\* one line: a ternary span over a condition, alone, after an assignment or a
\* span that is no ternary, before another ternary span; and a span whose ":"
\* comes before its "?"
FixDocuments ==
    {<<before \o "[" \o condition \o "?b:c]" \o after>> :
        before \in {"", "x=1 [a][=?:]"},
        condition \in StringsUpTo(FixConditionChars, MaxFixCondition),
        after \in {"", " [d=1?e:f]"}}
    \cup {<<"[a=1:b?c]">>}

InitFix == InitWith(FixDocuments, {AllEnabled})

NextFix ==
    \/ ReplaceSingleEqualsInIfElse
    \/ FindIfElseSingleEquals

SpecFix == InitFix /\ [][NextFix]_vars

\* tags in both cases, with attributes, unclosed, one inside the attributes of
\* another, a longer tag name, comment markers that share a hyphen
HtmlLines ==
    {"<script>", "</SCRIPT>", "<Script a", "b>", "<scripts></style>",
     "<STYLE><script <script>", "<!--->", "-->x"}

InitHtml == InitWith(DocumentsOver(HtmlLines, MaxHtmlLines), {AllEnabled})

NextHtml ==
    \/ AnalyzeHtml

SpecHtml == InitHtml /\ [][NextHtml]_vars

\* the characters the header patterns tell apart
HeaderChars == {"a", "$", "=", "(", ")", ">", " "}

\* one line: every short string over the header characters, and longer lines
\* that come close to two patterns at once
HeaderDocuments ==
    {<<line>> : line \in StringsUpTo(HeaderChars, MaxHeaderLength)}
    \cup {<<"a()=>">>, <<"async a(a) =>">>, <<"async=()=>">>, <<"a$()=>">>,
          <<"$a()=>">>, <<"a =(a)=>">>, <<"a-a (= =>">>, <<"async  a ( ) => ">>,
          <<"$a-a = a()=>">>}

InitHeader == InitWith(HeaderDocuments, {AllEnabled})

NextHeader ==
    \/ IsListHeaderLine

SpecHeader == InitHeader /\ [][NextHeader]_vars

\* top-level lines whose first word starts with a digit, holds a "$", starts
\* with a "$", follows `async`, or is a plain list name
NameLines == {"1a", "a$b = c", "$a", "async f(x) =>", "a-b", "_a1 = b"}

InitNames == InitWith(DocumentsOver(NameLines, MaxNameLines), {AllEnabled})

NextNames ==
    \/ CollectListDefinitions
    \/ AnalyzePerchance

SpecNames == InitNames /\ [][NextNames]_vars

\* any command line over the files of one listing, and any sizes of the files
\* under a command line that sets the count
InitBatch ==
    /\ text = <<>>
    /\ config = AllEnabled
    /\ out = Idle
    /\ lastIndex = 0
    /\ collection = NoEntry
    /\ NoEditor
    /\ \/ argv \in ArgLists /\ files = [i \in 1..Len(FileNames) |-> [file |-> FileNames[i], size |-> 1]]
       \/ argv \in CountArgLists /\ files \in FileLists

NextBatch ==
    \/ ParseArgs
    \/ GetLargestByExt

SpecBatch == InitBatch /\ [][NextBatch]_vars

\* the editor on one open document, under any configuration
EditorLines == {"a", "[[b]][[a]]", " [b=1?a:b]", ""}

Init == InitWith(DocumentsOver(EditorLines, MaxLines), Configurations)

Next ==
    \/ UpdateDiagnostics
    \/ ProvideDefinition
    \/ CollectListDefinitions

Spec == Init /\ [][Next]_vars

\* a block header, an indented one-word item, items indented by a space and a
\* tab, by two spaces with trailing blanks, a blank line, a comment, an
\* indented tag line, an unindented item
FormatLines == {"a", "\tb", " \tb c", "  b c ", "", "//c", " <p>", "b c"}

InitFormat == InitWith(DocumentsOver(FormatLines, MaxFormatLines), {AllEnabled})

NextFormat ==
    \/ FormatDocument
    \/ PlainFormatDocument

SpecFormat == InitFormat /\ [][NextFormat]_vars

\* the documents that are open when the extension is activated
OpenAtActivation ==
    [Uris -> {Closed} \cup [open : {TRUE}, languageId : LanguageIds,
                            text : EditorTexts, notified : {FALSE}]]

\* the editor once activate has returned, in either source of the extension
InitEditorWith(configurations, adapters) ==
    /\ text = <<>>
    /\ out = Idle
    /\ lastIndex = 0
    /\ collection = NoEntry
    /\ argv = <<>>
    /\ files = <<>>
    /\ \E configuration \in configurations, which \in adapters,
          docs \in OpenAtActivation :
          \E active \in {""} \cup {uri \in Uris : docs[uri].open} :
              /\ config = configuration
              /\ adapter = which
              /\ textDocuments = docs
              /\ activeTextEditor = active
              /\ diagnosticCollection = Activated(which, docs, active, configuration)

\* the configurations the editor is left in: everything enabled, one rule
\* disabled, diagnostics disabled
FixedConfigurations ==
    {AllEnabled, [AllEnabled EXCEPT !.checkIndentation = FALSE],
     [AllEnabled EXCEPT !.enableDiagnostics = FALSE]}

InitEditor == InitEditorWith(FixedConfigurations, {"configurable", "plain"})

\* open, change and close events under a configuration that stays as it is
NextEditor ==
    \/ OnDidOpenTextDocument
    \/ OnDidChangeTextDocument
    \/ OnDidCloseTextDocument
    \/ OnDidChangeActiveTextEditor

SpecEditor == InitEditor /\ [][NextEditor]_vars

\* src/extension.js registers no handler for a change of the configuration
\* it is activated here before any document is open, with every rule enabled
InitWorkspace ==
    /\ text = <<>>
    /\ out = Idle
    /\ lastIndex = 0
    /\ collection = NoEntry
    /\ argv = <<>>
    /\ files = <<>>
    /\ config = AllEnabled
    /\ NoEditor

\* the same events, and changes of the configuration
NextWorkspace ==
    \/ NextEditor
    \/ OnDidChangeConfiguration

SpecWorkspace == InitWorkspace /\ [][NextWorkspace]_vars

\* a function header at level 0 and one at level 1, a condition at levels 2, 1
\* and 0, a blank line, a comment at level 0
FunctionLines ==
    {"g=>", "  h=>", "    [a=1?b:c]", "  [a=1?b:c]", "[a=1?b:c]", "", "//c"}

InitFunctions == InitWith(DocumentsOver(FunctionLines, MaxFunctionLines), {AllEnabled})

NextFunctions == AnalyzeDocument

SpecFunctions == InitFunctions /\ [][NextFunctions]_vars

\* what a line with a comment is put together from: an offending span, the
\* comment marker, the two halves of an offending span, a blank
CommentPieces == {"[a=1?b:c]", "//", "[a=1", "?b:c]", " "}

\* one line of up to MaxCommentPieces pieces: spans before, after and across
\* the comment marker, with and without indentation
CommentDocuments == {<<line>> : line \in StringsUpTo(CommentPieces, MaxCommentPieces)}

InitComment == InitWith(CommentDocuments, {AllEnabled})

NextComment ==
    \/ AnalyzeDocument
    \/ AnalyzePerchance

SpecComment == InitComment /\ [][NextComment]_vars

\* a blank line, a tag line, a block header, a markup comment, an item that is
\* no header, an indented shorthand
MarkupLines == {"", "<p>", "a", "<!--a", "x y", " b = c"}

InitMarkup == InitWith(DocumentsOver(MarkupLines, MaxMarkupLines), {AllEnabled})

NextMarkup == AnalyzePerchance

SpecMarkup == InitMarkup /\ [][NextMarkup]_vars

----------------------------------------------------------------------------
(* C6, C7: the markup boundary. *)

IsBlankLine(line) == \A i \in 0..(Len(line) - 1) : CharAt(line, i) \in WhiteSpace

\* the line at index i is a tag line directly preceded by a blank line
IsBoundaryCandidate(lines, i) ==
    LET line == lines[i + 1]
        k == CHOOSE n \in 0..Len(line) :
                 /\ \A j \in 0..(n - 1) : CharAt(line, j) \in WhiteSpace
                 /\ CharAt(line, n) \notin WhiteSpace
    IN  /\ i >= 1
        /\ ~IsBlankLine(line)
        /\ IsBlankLine(lines[i])
        /\ CharAt(line, k) = "<"
        /\ \E j \in 0..4 : CharAt(line, k + j) # "<"
        /\ \E j \in k..(Len(line) - 1) :
              /\ CharAt(line, j) = "<"
              /\ \/ CharAt(line, j + 1) \in Letters
                 \/ CharAt(line, j + 1) = "/" /\ CharAt(line, j + 2) \in Letters

\* C6: findHtmlStart returns the smallest index of a non-blank tag line (starting
\* with "<" but not "<<<<<", containing "<" or "</" and a letter) whose previous
\* line is blank, and lines.length when there is none; it is never 0.
C6_BoundaryIsFirstTagAfterBlank ==
    out.op = "findHtmlStart" =>
        LET candidates == {i \in 0..(Len(text) - 1) : IsBoundaryCandidate(text, i)}
        IN  /\ candidates = {} => out.result = Len(text)
            /\ candidates # {} =>
                  /\ out.result \in candidates
                  /\ \A i \in candidates : out.result <= i
            /\ out.result # 0

\* a tag line not preceded by a blank line is passed over for a later boundary
C6_Witness ==
    /\ out.op = "findHtmlStart"
    /\ Len(text) = 3
    /\ text[1] = "<p>"
    /\ text[2] = ""
    /\ out.result = 2

\* "<<<name>>>": three "<", an identifier, three ">"
IsPlaceholderLine(line) ==
    /\ StartsWith(line, "<<<")
    /\ LET n == RunLength(line, 3, Letters \cup Digits \cup {"_", "-"})
       IN  /\ n >= 1
           /\ CharAt(line, 3) \in Letters \cup {"_"}
           /\ SliceFrom(line, 3 + n) = ">>>"

----------------------------------------------------------------------------
(* C10: the indentation level. *)

\* C10: countIndentLevel is tabs + floor(spaces / 2), whatever the interleaving.
C10_IndentLevelIsTabsPlusHalfSpaces ==
    out.op = "countIndentLevel" =>
        out.level = CountInString(out.indent, "\t") + (CountInString(out.indent, " ") \div 2)

\* two spaces split by a tab still count as one level
C10_Witness ==
    /\ out.op = "countIndentLevel"
    /\ out.indent = " \t "
    /\ out.level = 2

----------------------------------------------------------------------------
(* References and declarations, read off the text character by character. *)

\* "[[" name "]]" stands at column p of the line, name of n characters
IsReferenceAt(line, p, n, rest) ==
    /\ n >= 1
    /\ CharAt(line, p) = "[" /\ CharAt(line, p + 1) = "["
    /\ CharAt(line, p + 2) \in NameStart
    /\ \A k \in 1..(n - 1) : CharAt(line, p + 2 + k) \in rest
    /\ CharAt(line, p + 2 + n) = "]" /\ CharAt(line, p + 3 + n) = "]"

\* every [[name]] occurrence of the document
Occurrences(lines, rest) ==
    UNION {
        UNION {
            {[line |-> l, start |-> p, name |-> Slice(lines[l + 1], p + 2, p + 2 + n)] :
                n \in {m \in 1..Len(lines[l + 1]) : IsReferenceAt(lines[l + 1], p, m, rest)}}
            : p \in 0..(Len(lines[l + 1]) - 1)}
        : l \in 0..(Len(lines) - 1)}

UnknownPrefix == "Unknown list reference: "

DiagnosticAt(occurrence) ==
    [line |-> occurrence.line, start |-> occurrence.start,
     end |-> occurrence.start + Len(occurrence.name) + 4,
     message |-> UnknownPrefix \o occurrence.name, code |-> ""]

CountWhere(seq, Test(_)) == Cardinality({i \in DOMAIN seq : Test(seq[i])})

IsCommentLine(line) == StartsWith(TrimStart(line), "//")

HasIndent(line) == CharAt(line, 0) \in WhiteSpace

\* the characters parseListName accepts in a name
TopLevelNameChars == Letters \cup Digits \cup {"_", "$", "-"}

\* the zero-indentation line starts, after an optional "async ", with the name
DeclaresAtTopLevel(line, name) ==
    LET trimmed == Trim(line)
        body == IF StartsWith(trimmed, "async ") THEN TrimStart(SliceFrom(trimmed, 6))
                ELSE trimmed
    IN  /\ ~HasIndent(line)
        /\ name # ""
        /\ StartsWith(body, name)
        /\ \A i \in 0..(Len(name) - 1) : CharAt(name, i) \in TopLevelNameChars
        /\ CharAt(name, 0) # "-"
        /\ CharAt(body, Len(name)) \notin TopLevelNameChars

\* the indented line is a block header `name` or a shorthand `name = ...`
DeclaresIndented(line, name) ==
    LET trimmed == Trim(line)
    IN  /\ HasIndent(line)
        /\ name # ""
        /\ StartsWith(trimmed, name)
        /\ CharAt(name, 0) \in NameStart
        /\ \A i \in 1..(Len(name) - 1) : CharAt(name, i) \in NameRest
        /\ CharAt(trimmed, Len(name)) \notin NameRest
        /\ \/ trimmed = name
           \/ \E k \in Len(name)..(Len(trimmed) - 1) :
                 /\ CharAt(trimmed, k) = "="
                 /\ \A j \in Len(name)..(k - 1) : CharAt(trimmed, j) \in WhiteSpace

\* a line that declares a list: not blank, not a comment, not a tag line
IsDeclarationLine(line) ==
    /\ ~IsBlankLine(line)
    /\ ~IsCommentLine(line)
    /\ ~StartsWith(TrimStart(line), "<")

----------------------------------------------------------------------------
(* C1: unresolved references. *)

UnresolvedExactly(diagnostics, lines, definitions, rest) ==
    LET expected == {o \in Occurrences(lines, rest) : o.name \notin DOMAIN definitions}
        IsAt(o) == LET Same(d) == d = DiagnosticAt(o) IN CountWhere(diagnostics, Same) = 1
        IsUnresolved(d) == StartsWith(d.message, UnknownPrefix)
    IN  /\ \A o \in expected : IsAt(o)
        /\ CountWhere(diagnostics, IsUnresolved) = Cardinality(expected)

----------------------------------------------------------------------------
(* C2, C3: the definition map. *)

\* C2 as stated: every name of the map is the name of a zero-indentation
\* declaration line before the boundary, not "$"-prefixed, and the map's entry
\* is never one an indented line made.
C2_OnlyTopLevelDeclarations ==
    out.op = "collectListDefinitions" =>
        \A name \in DOMAIN out.definitions :
            LET index == out.definitions[name]
            IN  /\ index < findHtmlStart(text)
                /\ ~StartsWith(name, "$")
                /\ IsDeclarationLine(text[index + 1])
                /\ DeclaresAtTopLevel(text[index + 1], name)

\* C2 amended: every name of the map is the name of a declaration line before
\* the boundary and is not "$"-prefixed; the line is a zero-indentation line or
\* an indented block header or shorthand.
C2_DeclarationsBeforeBoundary ==
    out.op = "collectListDefinitions" =>
        \A name \in DOMAIN out.definitions :
            LET index == out.definitions[name]
            IN  /\ index < findHtmlStart(text)
                /\ ~StartsWith(name, "$")
                /\ IsDeclarationLine(text[index + 1])
                /\ \/ DeclaresAtTopLevel(text[index + 1], name)
                   \/ DeclaresIndented(text[index + 1], name)

\* an indented shorthand adds its name
C2_Witness ==
    /\ out.op = "collectListDefinitions"
    /\ text = <<"a", "\tb=a", "$a">>
    /\ DOMAIN out.definitions = {"a", "b"}
    /\ out.definitions["b"] = 1

\* the first line before the boundary that declares the name
FirstDeclaration(lines, name) ==
    LET declaring == {i \in 0..(findHtmlStart(lines) - 1) :
                         /\ IsDeclarationLine(lines[i + 1])
                         /\ \/ DeclaresAtTopLevel(lines[i + 1], name)
                            \/ DeclaresIndented(lines[i + 1], name)}
    IN  IF declaring = {} THEN -1
        ELSE CHOOSE i \in declaring : \A j \in declaring : i <= j

\* C3: a name declared on several lines maps to its first declaring line, and
\* go-to-definition on a reference lands there.
C3_FirstDeclarationKept ==
    /\ out.op = "collectListDefinitions" =>
          \A name \in DOMAIN out.definitions :
              out.definitions[name] = FirstDeclaration(text, name)
    /\ (out.op = "provideDefinition" /\ out.found) =>
          out.target = FirstDeclaration(text, out.name)

----------------------------------------------------------------------------
(* C4: duplicate top-level names. *)

DuplicateCode == "perchance.duplicateListName"

\* the name the duplicate rule classifies a zero-indentation line by
ClassifiedName(line) == parseListName(Trim(stripComment(line)))

\* the zero-indentation, non-blank, non-comment lines before the boundary that
\* carry a name
NamedTopLevelLines(lines) ==
    {i \in 0..(findHtmlStart(lines) - 1) :
        /\ ~IsBlankLine(lines[i + 1])
        /\ ~IsCommentLine(lines[i + 1])
        /\ ~HasIndent(lines[i + 1])
        /\ ClassifiedName(lines[i + 1]) # ""}

\* flagged, the lines of the duplicate findings in output order, holds exactly
\* one entry for each named top-level line whose name an earlier one carries,
\* so that a name carried by k lines has k - 1 entries
FlagsRepeatedNames(lines, flagged) ==
    LET top == NamedTopLevelLines(lines)
        NameOf(i) == ClassifiedName(lines[i + 1])
        repeated == {i \in top : \E j \in top : j < i /\ NameOf(j) = NameOf(i)}
        FindingsOn(lineSet) == Cardinality({k \in DOMAIN flagged : flagged[k] \in lineSet})
    IN  /\ \A l \in 0..(Len(lines) - 1) :
              FindingsOn({l}) = IF l \in repeated THEN 1 ELSE 0
        /\ \A i \in top :
              FindingsOn({j \in top : NameOf(j) = NameOf(i)})
                  = Cardinality({j \in top : NameOf(j) = NameOf(i)}) - 1

\* the 0-based lines of the findings of `seq` that carry the code
LinesOfCode(seq, code, base) ==
    LET hits == {k \in DOMAIN seq : seq[k].code = code}
        Rank(k) == Cardinality({h \in hits : h <= k})
    IN  [r \in 1..Cardinality(hits) |->
            seq[CHOOSE k \in hits : Rank(k) = r].line - base]

\* C4, for the editor analyzer alone: with duplicate checking enabled, exactly
\* the zero-indentation, non-blank, non-comment lines before the boundary whose
\* name an earlier such line carries get a duplicate finding, one each.
C4_EditorDuplicatesAfterFirst ==
    (out.op = "analyzeDocument" /\ config.checkDuplicates) =>
        FlagsRepeatedNames(text, LinesOfCode(out.diagnostics, DuplicateCode, 0))

\* C4: in the editor analyzer (duplicate checking enabled) and in the batch
\* validator alike, exactly the zero-indentation, non-blank, non-comment lines
\* before the boundary whose classified name an earlier such line carries get a
\* duplicate finding; a name declared k times at top level gets k - 1.
C4_DuplicatesAfterFirst ==
    /\ C4_EditorDuplicatesAfterFirst
    /\ out.op = "analyzePerchance" =>
          FlagsRepeatedNames(text, LinesOfCode(out.warnings, "duplicate-list", 1))

\* the validator has run on `$a` declared twice at top level
C4_BatchDollarWitness ==
    /\ out.op = "analyzePerchance"
    /\ text = <<"$a", "$a">>
    /\ out.warnings = <<>>

\* `a` on lines 0 and 2 and an indented ` a` between: one finding, on line 2
C4_Witness ==
    /\ out.op = "analyzeDocument"
    /\ config.checkDuplicates
    /\ text = <<"a", " a", "a=b//a">>
    /\ \E i \in DOMAIN out.diagnostics :
          /\ out.diagnostics[i].code = DuplicateCode
          /\ out.diagnostics[i].line = 2

----------------------------------------------------------------------------
(* C5: reference records. *)

ReferencesRoundTrip(references, lines) ==
    /\ \A i \in DOMAIN references :
          LET ref == references[i]
          IN  /\ ref.line \in 0..(Len(lines) - 1)
              /\ ref.end <= Len(lines[ref.line + 1])
              /\ Slice(lines[ref.line + 1], ref.start, ref.end)
                     = "[[" \o ref.name \o "]]"
    /\ \A i, j \in DOMAIN references :
          (i # j /\ references[i].line = references[j].line) =>
              \/ references[i].end <= references[j].start
              \/ references[j].end <= references[i].start

\* C5: each record of collectListReferences covers exactly "[[" name "]]" in its
\* line, and the records of one line do not overlap.
C5_ReferenceSpans ==
    (out.op \in {"collectListReferences", "plainCollectListReferences"}) =>
        ReferencesRoundTrip(out.references, text)

\* two adjacent references on an indented line
C5_Witness ==
    /\ out.op = "collectListReferences"
    /\ text = <<" [[b]][[a]]">>
    /\ out.references = <<[name |-> "b", line |-> 0, start |-> 1, end |-> 6],
                          [name |-> "a", line |-> 0, start |-> 6, end |-> 11]>>

----------------------------------------------------------------------------
(* C8: the markup region. *)

StructuralCodes ==
    {"perchance.duplicateListName", "perchance.indentationMixed",
     "perchance.indentationSpacing", "perchance.ifElseSingleEquals"}

\* C8: no definition-map entry and no duplicate, indentation or single-equals
\* finding is on a line at or after the boundary of findHtmlStart, while every
\* [[name]] occurrence at or after the boundary has its Reference record and is
\* reported exactly when its name is not defined.
C8_MarkupRegionOnlyScannedForReferences ==
    LET boundary == findHtmlStart(text)
        inMarkup == {o \in Occurrences(text, NameRest) : o.line >= boundary}
    IN  /\ out.op = "collectListDefinitions" =>
              \A name \in DOMAIN out.definitions : out.definitions[name] < boundary
        /\ out.op = "analyzeDocument" =>
              /\ \A i \in DOMAIN out.diagnostics :
                    out.diagnostics[i].code \in StructuralCodes =>
                        out.diagnostics[i].line < boundary
              /\ \A o \in inMarkup :
                    (\E i \in DOMAIN out.diagnostics : out.diagnostics[i] = DiagnosticAt(o))
                        <=> o.name \notin DOMAIN collectListDefinitions(text)
        /\ out.op = "collectListReferences" =>
              \A o \in inMarkup :
                  \E i \in DOMAIN out.references :
                      out.references[i] =
                          [name |-> o.name, line |-> o.line, start |-> o.start,
                           end |-> o.start + Len(o.name) + 4]

\* after the tag line: an indented shorthand of a declared name with a
\* single-equals ternary; only the unknown reference of the tag line is reported
C8_Witness ==
    /\ out.op = "analyzeDocument"
    /\ text = <<"a", "", "<p>[[b]]", " a=[[a]][b=1?a:b]">>
    /\ findHtmlStart(text) = 2
    /\ out.diagnostics = <<[line |-> 2, start |-> 3, end |-> 8,
                            message |-> "Unknown list reference: b", code |-> ""]>>

----------------------------------------------------------------------------
(* C9: no hidden state. *)

\* C9: with the text and the toggles unchanged, a run of the diagnostics
\* publishes the findings the run before it published, whatever entry points
\* (go-to-definition included) ran in between and whatever lastIndex they left.
C9_DiagnosticsRepeatable ==
    [][(collection.set /\ collection'.set)
           => collection'.diagnostics = collection.diagnostics]_vars

\* a second run that found lastIndex left behind by go-to-definition
C9_Witness ==
    /\ out.op = "updateDiagnostics"
    /\ out.replaced
    /\ out.entered > 0
    /\ text = <<"[[b]][[a]]", "a">>
    /\ collection.set
    /\ collection.diagnostics # <<>>

----------------------------------------------------------------------------
(* C11: the single-equals rule of bracketed conditions. *)

\* the index just after the first "]" of the span that opens at p, -1 when p
\* opens no span: "[", one or more characters other than "]", "]"
SpanEnd(s, p) ==
    LET closes == {q \in (p + 2)..(Len(s) - 1) : CharAt(s, q) = "]"}
    IN  IF CharAt(s, p) = "[" /\ CharAt(s, p + 1) \notin {"", "]"} /\ closes # {}
        THEN 1 + CHOOSE q \in closes : \A r \in closes : q <= r
        ELSE -1

\* p opens a bracketed span of s: the spans are taken from the left and do not
\* overlap
RECURSIVE OpensSpan(_, _)
OpensSpan(s, p) ==
    /\ SpanEnd(s, p) # -1
    /\ \A earlier \in 0..(p - 1) : OpensSpan(s, earlier) => SpanEnd(s, earlier) <= p

\* the text between the brackets of the span that opens at p
SpanContent(s, p) == Slice(s, p + 1, SpanEnd(s, p) - 1)

\* the text before the first "?" of a content that holds one
ConditionOf(content) == Slice(content, 0, IndexOf(content, "?"))

\* an "=" whose predecessor is none of = ! > < and whose successor is none of = >
HasQualifyingEquals(condition) ==
    \E i \in 0..(Len(condition) - 1) :
        /\ CharAt(condition, i) = "="
        /\ CharAt(condition, i - 1) \notin {"=", "!", ">", "<"}
        /\ CharAt(condition, i + 1) \notin {"=", ">"}

\* the span that opens at p is a ternary whose condition holds a single "="
SpanOffends(s, p) ==
    LET content == SpanContent(s, p)
    IN  /\ Includes(content, "?")
        /\ Includes(content, ":")
        /\ HasQualifyingEquals(ConditionOf(content))

\* C11: findIfElseSingleEquals reports a bracketed span if and only if the span
\* holds a "?" and a ":" and the text before its first "?" holds an "=" whose
\* predecessor is none of = ! > < and whose successor is neither = nor >; its
\* findings are spans, each reported once, in order.
C11_SingleEqualsFindings ==
    out.op = "findIfElseSingleEquals" =>
        LET s == out.line
            offending == {p \in 0..(Len(s) - 1) : OpensSpan(s, p) /\ SpanOffends(s, p)}
        IN  /\ Len(out.warnings) = Cardinality(offending)
            /\ \A k \in DOMAIN out.warnings :
                  /\ out.warnings[k].start \in offending
                  /\ out.warnings[k].end = SpanEnd(s, out.warnings[k].start)
                  /\ \A j \in 1..(k - 1) : out.warnings[j].start < out.warnings[k].start

\* a condition of only "!=" and "=>" beside one with a single "=": one finding
C11_Witness ==
    /\ out.op = "findIfElseSingleEquals"
    /\ out.line = "[=?:][!=?:]"
    /\ out.warnings = <<[start |-> 0, end |-> 5]>>

----------------------------------------------------------------------------
(* C12: the ranges of the single-equals findings of the editor analyzer. *)

IfElseCode == "perchance.ifElseSingleEquals"

\* the findings of `diagnostics` with this code on this line
FindingsOfCode(diagnostics, code, line) ==
    {k \in DOMAIN diagnostics : diagnostics[k].code = code /\ diagnostics[k].line = line}

\* C12: each single-equals finding of analyzeDocument covers, in the raw line,
\* exactly one bracketed span, from its "[" to just after its first "]"; no span
\* gets two findings, so a line has at most as many findings as spans.
C12_OneFindingPerSpan ==
    out.op = "analyzeDocument" =>
        \A line \in 0..(Len(text) - 1) :
            LET raw == text[line + 1]
                found == FindingsOfCode(out.diagnostics, IfElseCode, line)
                spans == {p \in 0..(Len(raw) - 1) : OpensSpan(raw, p)}
            IN  /\ \A k \in found :
                      /\ out.diagnostics[k].start \in spans
                      /\ out.diagnostics[k].end = SpanEnd(raw, out.diagnostics[k].start)
                /\ \A j, k \in found :
                      out.diagnostics[j].start = out.diagnostics[k].start => j = k
                /\ Cardinality(found) <= Cardinality(spans)

\* the indented line with two offending "=" in one span and a span in a comment
C12_Witness ==
    /\ out.op = "analyzeDocument"
    /\ config.checkIfElseEquals
    /\ text = <<" \t[[b]][a=1=2?b:c][d=1?e:f]//[g=1?h:i]">>
    /\ Cardinality(FindingsOfCode(out.diagnostics, IfElseCode, 0)) = 2

----------------------------------------------------------------------------
(* C13: the bodies of function lists. *)

\* the indentation level of a line
LevelOf(line) == countIndentLevel(IndentOf(line))

\* the line, without its comment, is `name(args) =>`, optionally after `async`
IsFunctionHeaderLine(line) == IsFunctionHeader(Trim(stripComment(line)))

\* C13: after a function-header line `name(args) =>` at level L, the lines that
\* follow it at a level strictly greater than L, before the boundary, get no
\* single-equals finding.
C13_FunctionBodyExempt ==
    out.op = "analyzeDocument" =>
        \A header \in 0..(findHtmlStart(text) - 1) :
            \A body \in (header + 1)..(findHtmlStart(text) - 1) :
                (/\ IsFunctionHeaderLine(text[header + 1])
                 /\ \A between \in (header + 1)..body :
                       LevelOf(text[between + 1]) > LevelOf(text[header + 1]))
                => FindingsOfCode(out.diagnostics, IfElseCode, body) = {}

\* the body under `g=>` is exempt, the same body under `f(x) =>` is not
C13_ArrowAfterWordWitness ==
    /\ out.op = "analyzeDocument"
    /\ config.checkIfElseEquals
    /\ text = <<"g=>", "  [a=1?b:c]">>
    /\ out.diagnostics = <<>>

----------------------------------------------------------------------------
(* C14: the three toggles of the structural rules. *)

\* the codes of the findings a configuration lets through; the unknown-reference
\* findings carry no code
CodesEnabledBy(cfg) ==
    {""}
    \cup (IF cfg.checkDuplicates THEN {DuplicateCode} ELSE {})
    \cup (IF cfg.checkIndentation
          THEN {"perchance.indentationMixed", "perchance.indentationSpacing"} ELSE {})
    \cup (IF cfg.checkIfElseEquals THEN {IfElseCode} ELSE {})

\* the findings of `diagnostics` whose code is in `codes`, in order
OfCodes(diagnostics, codes) ==
    LET Kept(d) == d.code \in codes
    IN  SelectSeq(diagnostics, Kept)

\* C14: under each of the eight combinations of the toggles the findings are
\* those of the all-enabled run with the findings of the disabled rules taken
\* out: a disabled rule contributes nothing, the other rules and the
\* unknown-reference findings are unchanged, and with all three disabled only
\* the unknown-reference findings remain.
C14_TogglesOnlyRemoveTheirFindings ==
    out.op = "analyzeDocument" =>
        LET all == analyzeDocument(text, AllEnabled, 0).diagnostics
        IN  /\ out.diagnostics = OfCodes(all, CodesEnabledBy(config))
            /\ OfCodes(out.diagnostics, {""}) = OfCodes(all, {""})
            /\ (~config.checkDuplicates /\ ~config.checkIndentation
                    /\ ~config.checkIfElseEquals)
               => out.diagnostics = OfCodes(all, {""})

\* the indentation rule alone is disabled on a line that is mixed, odd, holds
\* an unknown reference and two offending spans
C14_Witness ==
    /\ out.op = "analyzeDocument"
    /\ config = [AllEnabled EXCEPT !.checkIndentation = FALSE]
    /\ text = <<" \t[[b]][a=1=2?b:c][d=1?e:f]//[g=1?h:i]", "g=>", "g=>">>
    /\ Len(out.diagnostics) = 4
    /\ Len(analyzeDocument(text, AllEnabled, 0).diagnostics) = 6

----------------------------------------------------------------------------
(* C15: mixed and odd indentation. *)

\* the leading run of tabs and spaces of a line
LeadingRun(line) ==
    LET rest == {i \in 0..Len(line) : CharAt(line, i) \notin {"\t", " "}}
    IN  Slice(line, 0, CHOOSE i \in rest : \A j \in rest : i <= j)

\* a non-blank, non-comment line before the boundary with a leading run
IsIndentedListLine(lines, l) ==
    /\ l < findHtmlStart(lines)
    /\ ~IsBlankLine(lines[l + 1])
    /\ ~IsCommentLine(lines[l + 1])
    /\ LeadingRun(lines[l + 1]) # ""

HasMixedRun(line) ==
    CountInString(LeadingRun(line), "\t") > 0 /\ CountInString(LeadingRun(line), " ") > 0

HasOddRun(line) == CountInString(LeadingRun(line), " ") % 2 = 1

\* the mixed and odd findings of `findings`, whose lines count from `base`, are
\* one each on exactly the lines that call for them
IndentationFindingsExact(lines, findings, base, mixedCode, oddCode) ==
    \A l \in 0..(Len(lines) - 1) :
        LET Count(code) ==
                Cardinality({k \in DOMAIN findings :
                                findings[k].code = code /\ findings[k].line = l + base})
        IN  /\ Count(mixedCode) =
                  IF IsIndentedListLine(lines, l) /\ HasMixedRun(lines[l + 1])
                  THEN 1 ELSE 0
            /\ Count(oddCode) =
                  IF IsIndentedListLine(lines, l) /\ HasOddRun(lines[l + 1])
                  THEN 1 ELSE 0

\* C15: in the editor analyzer (indentation checking enabled) and in the batch
\* validator, a non-blank, non-comment line before the boundary with a leading
\* run of tabs and spaces gets a mixed-indentation finding iff the run holds a
\* tab and a space, and an odd-indentation finding iff the run holds an odd
\* number of spaces; all other lines get neither.
C15_MixedAndOddIndentation ==
    /\ (out.op = "analyzeDocument" /\ config.checkIndentation) =>
          IndentationFindingsExact(text, out.diagnostics, 0,
              "perchance.indentationMixed", "perchance.indentationSpacing")
    /\ out.op = "analyzePerchance" =>
          IndentationFindingsExact(text, out.warnings, 1, "mixed-indent", "odd-indent")

\* two tabs around one space: mixed and odd, both reported by the validator
C15_Witness ==
    /\ out.op = "analyzePerchance"
    /\ text = <<"\t \tx">>
    /\ Len(out.warnings) = 2
    /\ out.warnings[1].code = "mixed-indent"
    /\ out.warnings[2].code = "odd-indent"

----------------------------------------------------------------------------
(* C16: the quick fix changes one character. *)

\* the line with the character at index i replaced by "=="
WithDoubledEquals(line, i) == Slice(line, 0, i) \o "==" \o SliceFrom(line, i + 1)

\* the bracketed spans of a line that hold a "?" and a ":"
TernarySpans(line) ==
    {p \in 0..(Len(line) - 1) :
        /\ OpensSpan(line, p)
        /\ Includes(SpanContent(line, p), "?")
        /\ Includes(SpanContent(line, p), ":")}

\* the index in the line of the first qualifying "=" of the condition of the
\* span that opens at p, -1 when there is none
FirstQualifyingEquals(line, p) ==
    LET condition == ConditionOf(SpanContent(line, p))
        hits == {i \in 0..(Len(condition) - 1) :
                    /\ CharAt(condition, i) = "="
                    /\ CharAt(condition, i - 1) \notin {"=", "!", ">", "<"}
                    /\ CharAt(condition, i + 1) \notin {"=", ">"}}
    IN  IF hits = {} THEN -1
        ELSE p + 1 + CHOOSE h \in hits : \A g \in hits : h <= g

\* C16: a non-null result of replaceSingleEqualsInIfElse is the line with the
\* first qualifying "=" of the condition of a bracketed ternary span replaced by
\* "==" and nothing else changed, one character longer than the line; the
\* result is null when the line has no bracketed ternary span or no such span
\* has a qualifying "=" in its condition.
C16_FixChangesOneCharacter ==
    out.op = "replaceSingleEqualsInIfElse" =>
        /\ out.updated # "" =>
              /\ Len(out.updated) = Len(out.line) + 1
              /\ \E p \in TernarySpans(out.line) :
                    /\ FirstQualifyingEquals(out.line, p) # -1
                    /\ out.updated =
                          WithDoubledEquals(out.line, FirstQualifyingEquals(out.line, p))
        /\ (\A p \in TernarySpans(out.line) : FirstQualifyingEquals(out.line, p) = -1)
              => out.updated = ""

\* C16, for the lines that hold no "$": there the fix changes one character.
C16_FixWithoutDollar ==
    (out.op = "replaceSingleEqualsInIfElse" /\ ~Includes(out.line, "$"))
        => C16_FixChangesOneCharacter

\* the fix has rewritten the first ternary span and left the second alone
C16_PlainFixWitness ==
    /\ out.op = "replaceSingleEqualsInIfElse"
    /\ out.line = "x=1 [a][=?:][=!>?b:c] [d=1?e:f]"
    /\ out.updated = "x=1 [a][=?:][==!>?b:c] [d=1?e:f]"

\* the fix on a condition that holds "$$" has dropped a "$"
C16_DollarWitness ==
    /\ out.op = "replaceSingleEqualsInIfElse"
    /\ out.line = "[$$=?b:c]"
    /\ out.updated = "[$==?b:c]"

----------------------------------------------------------------------------
(* C17: the tag balance of an HTML file. *)

\* the literal stands at index p of the content, letters in either case
StandsAt(content, p, literal) ==
    /\ p + Len(literal) <= Len(content)
    /\ \A i \in 0..(Len(literal) - 1) :
          \/ CharAt(content, p + i) = CharAt(literal, i)
          \/ /\ CharAt(literal, i) \in Letters
             /\ IndexOf(UpperCase, CharAt(content, p + i))
                    = IndexOf(LowerCase, CharAt(literal, i))

\* an opening tag of this name starts at p: "<name", no name character next,
\* and a ">" further on
StartsOpenTag(content, p, name) ==
    /\ StandsAt(content, p, "<" \o name)
    /\ CharAt(content, p + 1 + Len(name)) \notin (Letters \cup Digits \cup {"_"})
    /\ \E q \in (p + 1 + Len(name))..(Len(content) - 1) : CharAt(content, q) = ">"

\* the opening tags of this name: a tag runs to its first ">", and what starts
\* inside it is no tag of its own
OpenTagCount(content, name) ==
    Cardinality({p \in 0..(Len(content) - 1) :
        /\ StartsOpenTag(content, p, name)
        /\ \A earlier \in 0..(p - 1) :
              StartsOpenTag(content, earlier, name) =>
                  \E q \in earlier..(p - 1) : CharAt(content, q) = ">"})

\* the occurrences of a literal, letters in either case
LiteralCount(content, literal) ==
    Cardinality({p \in 0..(Len(content) - 1) : StandsAt(content, p, literal)})

\* the occurrences of a literal as written
ExactCount(content, literal) ==
    Cardinality({p \in 0..(Len(content) - 1) :
                    Slice(content, p, p + Len(literal)) = literal})

\* the warnings with this code are: none when the counts agree, else one, at
\* file level, that reports the two counts
ReportsPair(warnings, code, what, open, close) ==
    LET found == {k \in DOMAIN warnings : warnings[k].code = code}
    IN  IF open = close THEN found = {}
        ELSE /\ Cardinality(found) = 1
             /\ \A k \in found :
                   /\ warnings[k].line = 0
                   /\ warnings[k].message =
                          what \o " count mismatch (open " \o ToString(open)
                               \o ", close " \o ToString(close) \o ")"

\* C17: analyzeHtml returns one file-level finding, with the two counts, for
\* each of the pairs script, style and comment whose open and close counts
\* differ, none for a pair whose counts agree, and nothing else; script and
\* style tags are counted in either case.
C17_TagBalanceFindings ==
    out.op = "analyzeHtml" =>
        /\ ReportsPair(out.warnings, "script-tag", "Script tag",
               OpenTagCount(out.content, "script"), LiteralCount(out.content, "</script>"))
        /\ ReportsPair(out.warnings, "style-tag", "Style tag",
               OpenTagCount(out.content, "style"), LiteralCount(out.content, "</style>"))
        /\ ReportsPair(out.warnings, "html-comment", "HTML comment",
               ExactCount(out.content, "<!--"), ExactCount(out.content, "-->"))
        /\ \A k \in DOMAIN out.warnings :
              out.warnings[k].code \in {"script-tag", "style-tag", "html-comment"}

\* one <script> and no </script>: one finding with open 1, close 0
C17_Witness ==
    /\ out.op = "analyzeHtml"
    /\ text = <<"<script>">>
    /\ out.warnings = <<[line |-> 0, code |-> "script-tag",
                         message |-> "Script tag count mismatch (open 1, close 0)"]>>

----------------------------------------------------------------------------
(* C18: the header patterns exclude one another. *)

\* the number of header patterns that match the line
PatternsMatched(o) ==
    Cardinality({kind \in {"block", "shorthand", "dollar", "function"} :
        \/ kind = "block" /\ o.block
        \/ kind = "shorthand" /\ o.shorthand
        \/ kind = "dollar" /\ o.dollar
        \/ kind = "function" /\ o.function})

\* C18: at most one of the four header patterns (block header, shorthand,
\* dollar shorthand, function header) matches a trimmed line, and
\* isListHeaderLine holds exactly when one does.
C18_HeaderPatternsExclusive ==
    out.op = "isListHeaderLine" =>
        /\ PatternsMatched(out) <= 1
        /\ out.result <=> PatternsMatched(out) = 1

\* a dollar shorthand whose value has the shape of a function header
C18_Witness ==
    /\ out.op = "isListHeaderLine"
    /\ out.line = "$a-a = a()=>"
    /\ out.dollar /\ ~out.shorthand /\ ~out.function /\ ~out.block

----------------------------------------------------------------------------
(* C19: the shape of the recorded names. *)

\* [A-Za-z_][A-Za-z0-9_-]*
IsListName(name) ==
    /\ CharAt(name, 0) \in Letters \cup {"_"}
    /\ \A i \in 1..(Len(name) - 1) :
          CharAt(name, i) \in Letters \cup Digits \cup {"_", "-"}

DuplicatePrefix == "Duplicate top-level list name: "

\* C19: every name in the definition map, and every name the duplicate rule of
\* the batch validator has recorded and reports, matches
\* [A-Za-z_][A-Za-z0-9_-]*.
C19_RecordedNamesAreListNames ==
    /\ out.op = "collectListDefinitions" =>
          \A name \in DOMAIN out.definitions : IsListName(name)
    /\ out.op = "analyzePerchance" =>
          \A k \in DOMAIN out.warnings :
              out.warnings[k].code = "duplicate-list" =>
                  IsListName(SliceFrom(out.warnings[k].message, Len(DuplicatePrefix)))

\* the definition map holds a name that starts with a digit and one with a "$"
C19_DigitAndDollarWitness ==
    /\ out.op = "collectListDefinitions"
    /\ text = <<"1a", "a$b = c", "$a">>
    /\ DOMAIN out.definitions = {"1a", "a$b"}

----------------------------------------------------------------------------
(* C20: the files the batch validator samples. *)

\* the values given to --top on a command line read from the left, an option
\* taking the argument after it when that argument is not empty
RECURSIVE TopValues(_)
TopValues(args) ==
    IF Len(args) = 0 THEN <<>>
    ELSE IF Head(args) \in {"--top", "--report"} /\ Len(args) >= 2 /\ args[2] # ""
    THEN (IF Head(args) = "--top" THEN <<args[2]>> ELSE <<>>)
         \o TopValues(SubSeq(args, 3, Len(args)))
    ELSE TopValues(Tail(args))

\* N: the value of --top when it parses to an integer greater than 0, else 10
CountAskedFor(args) ==
    LET values == TopValues(args)
        parsed == ParseInt(values[Len(values)])
    IN  IF values = <<>> THEN 10
        ELSE IF ~parsed.nan /\ parsed.value > 0 THEN parsed.value
        ELSE 10

\* the file has the extension, in either case
HasExtension(file, ext) ==
    Len(file) >= Len(ext) /\ StandsAt(file, Len(file) - Len(ext), ext)

\* C20: for a tracked extension getLargestByExt selects min(N, number of files
\* with the extension) of the files with the extension, in order of
\* non-increasing size, and no file with the extension left out is larger than
\* a selected one; parseArgs returns as N the --top value when it parses to an
\* integer greater than 0, and 10 when --top is absent, has no value, or its
\* value is not a number, zero or negative.
C20_LargestFilesSelected ==
    /\ out.op = "parseArgs" => out.topN = CountAskedFor(argv)
    /\ out.op = "getLargestByExt" =>
          LET with == {i \in DOMAIN files : HasExtension(files[i].file, out.ext)}
              chosen == {i \in with : \E k \in DOMAIN out.selected :
                                          out.selected[k] = files[i]}
          IN  /\ Len(out.selected) = Min(CountAskedFor(argv), Cardinality(with))
              /\ Cardinality(chosen) = Len(out.selected)
              /\ \A k \in DOMAIN out.selected :
                    \E i \in with : out.selected[k] = files[i]
              /\ \A k \in 1..(Len(out.selected) - 1) :
                    out.selected[k].size >= out.selected[k + 1].size
              /\ \A i \in with \ chosen : \A j \in chosen :
                    files[i].size <= files[j].size

\* two of three .html files are selected, the smallest is left out
C20_Witness ==
    /\ out.op = "getLargestByExt"
    /\ out.ext = ".html"
    /\ argv = <<"--top", "2">>
    /\ out.selected = <<[file |-> "B.HTML", size |-> 3], [file |-> "d.html", size |-> 2]>>
    /\ files[1] = [file |-> "a.html", size |-> 1]

\* --top is followed by zero: the default stands
C20_ZeroWitness ==
    /\ out.op = "parseArgs"
    /\ argv = <<"--top", "0">>
    /\ out.topN = 10

----------------------------------------------------------------------------
(* C21, C29: the document formatter. *)

\* Format Document has just run, with the settings it finds when nothing is
\* configured
FormattedByDefault ==
    \/ out.op = "formatDocument" /\ out.settings = DefaultFormat
    \/ out.op = "plainFormatDocument"

\* the names a block header may have in the formatter that has just run
FormatterNameRest == IF out.op = "plainFormatDocument" THEN NameRestPlain ELSE NameRest

\* a blank line, a comment line or a line starting with "<"
IsBlankCommentOrTag(line) ==
    \/ Trim(line) = ""
    \/ StartsWith(Trim(line), "//")
    \/ StartsWith(Trim(line), "<")

\* an unindented `name` or `$name` line
IsBlockHeaderLine(line, rest) ==
    /\ CharAt(line, 0) \notin WhiteSpace
    /\ BlockHeaderName(Trim(line), rest) # ""

\* line i is an indented item that follows a block header with no blank,
\* comment or tag line in between
IsItemOfBlock(lines, i, rest) ==
    /\ CharAt(lines[i], 0) \in WhiteSpace
    /\ ~IsBlankCommentOrTag(lines[i])
    /\ \E h \in 1..(i - 1) :
          /\ IsBlockHeaderLine(lines[h], rest)
          /\ \A j \in (h + 1)..(i - 1) : ~IsBlankCommentOrTag(lines[j])

\* the line starts with two spaces and no further white space
HasTwoSpaceIndent(line) ==
    /\ StartsWith(line, "  ")
    /\ RunLength(line, 0, WhiteSpace) = 2

\* C21: after Format Document with default settings, every indented, non-blank
\* item line that follows a block header with no blank, comment or "<" line in
\* between starts with exactly two spaces.
C21_ItemsIndentedByTwoSpaces ==
    FormattedByDefault =>
        \A i \in DOMAIN text :
            IsItemOfBlock(text, i, FormatterNameRest) => HasTwoSpaceIndent(text[i])

\* an item of several words under a header is brought to two spaces
C21_Witness ==
    /\ out.op = "formatDocument"
    /\ out.settings = DefaultFormat
    /\ out.before = <<"a", " \tb c">>
    /\ text = <<"a", "  b c">>

\* a one-word item under a header keeps its tab
C21_OneWordItemWitness ==
    /\ FormattedByDefault
    /\ out.before = <<"a", "\tb">>
    /\ text = <<"a", "\tb">>
    /\ out.edits = <<>>

FormatOps == {"formatDocument", "plainFormatDocument"}

\* no edit of the last Format Document replaced a blank line, a comment line, a
\* line starting with "<" or a line without leading white space
EditsOnlyIndentedItems ==
    out.op \in FormatOps =>
        \A k \in DOMAIN out.edits :
            LET line == out.before[out.edits[k].line + 1]
            IN  /\ ~IsBlankCommentOrTag(line)
                /\ CharAt(line, 0) \in WhiteSpace

\* Format Document run a second time by the same formatter under the same
\* settings returns no edits
SecondFormatReturnsNoEdits ==
    (/\ out.op \in FormatOps
     /\ out'.op = out.op
     /\ out'.settings = out.settings) => out'.edits = <<>>

\* C29: formatting is idempotent (formatting the document that results from
\* applying the edits returns no edits), and no edit touches a blank line, a
\* comment line, a line starting with "<" or a line with no leading white space.
C29_FormattingIdempotent ==
    /\ []EditsOnlyIndentedItems
    /\ [][SecondFormatReturnsNoEdits]_vars

\* the formatted document, formatted again: nothing to edit
C29_Witness ==
    /\ out.op = "formatDocument"
    /\ out.settings = DefaultFormat
    /\ out.before = <<"a", "  b c", "  b c">>
    /\ out.edits = <<>>
    /\ text = out.before

----------------------------------------------------------------------------
(* C22, C28: the diagnostic collection of the editor adapter. *)

\* the findings of the text a document holds now, as the activated source
\* computes them under a configuration
FindingsOfDocument(uri, configuration) ==
    IF adapter = "plain"
    THEN plainUpdateDiagnostics(textDocuments[uri].text, 0).diagnostics
    ELSE analyzeDocument(textDocuments[uri].text, configuration, 0).diagnostics

\* an open perchance document
IsOpenPerchance(uri) ==
    /\ textDocuments[uri].open
    /\ textDocuments[uri].languageId = "perchance"

\* C22: with diagnostics enabled and the configuration left as it is, after any
\* sequence of open, change and close events the collection maps every open
\* perchance document that has received an open or change event to the
\* findings of its most recent text, and holds no entry for a closed document.
C22_CollectionFollowsDocuments ==
    \A uri \in Uris :
        /\ (/\ config.enableDiagnostics
            /\ IsOpenPerchance(uri)
            /\ textDocuments[uri].notified)
               => diagnosticCollection[uri] = Entry(FindingsOfDocument(uri, config))
        /\ ~textDocuments[uri].open => diagnosticCollection[uri] = NoEntry

\* a document has been changed while another is open: each has the findings
\* of its own text
C22_Witness ==
    /\ out = [op |-> "onDidChangeTextDocument", uri |-> "file:a"]
    /\ adapter = "configurable"
    /\ config = AllEnabled
    /\ \A uri \in Uris : IsOpenPerchance(uri) /\ textDocuments[uri].notified
    /\ textDocuments["file:a"].text = <<" [b=1?a:b]">>
    /\ textDocuments["file:b"].text = <<"a", "a[[b]]">>
    /\ \A uri \in Uris : diagnosticCollection[uri].set
    /\ Len(diagnosticCollection["file:a"].diagnostics) = 2
    /\ diagnosticCollection["file:b"] # diagnosticCollection["file:a"]

\* a document that had an entry has been closed while the other stays open
C22_CloseWitness ==
    /\ out = [op |-> "onDidCloseTextDocument", uri |-> "file:a"]
    /\ ~textDocuments["file:a"].open
    /\ diagnosticCollection["file:a"] = NoEntry
    /\ diagnosticCollection["file:b"].set

\* C28: once a configuration change that affects "perchance" has been handled,
\* the entry of every open perchance document, not only of the one in the
\* active editor, equals the analysis of its text under the new toggles, and
\* no document has an entry when lists.enableDiagnostics is false.
C28_ConfigurationChangeRefreshesAll ==
    out.op = "onDidChangeConfiguration" =>
        \A uri \in Uris :
            /\ (/\ config.enableDiagnostics
                /\ IsOpenPerchance(uri)
                /\ diagnosticCollection[uri].set)
                   => diagnosticCollection[uri] = Entry(FindingsOfDocument(uri, config))
            /\ ~config.enableDiagnostics => diagnosticCollection[uri] = NoEntry

\* the handler does refresh the document of the active editor
C28_ActiveDocumentRefreshed ==
    (/\ out.op = "onDidChangeConfiguration"
     /\ activeTextEditor # ""
     /\ IsOpenPerchance(activeTextEditor))
        => diagnosticCollection[activeTextEditor] =
               IF config.enableDiagnostics
               THEN Entry(FindingsOfDocument(activeTextEditor, config))
               ELSE NoEntry

\* the indentation rule has been switched off with file:a in the active
\* editor: the entry of file:b still holds its indentation finding
C28_StaleEntryWitness ==
    /\ out = [op |-> "onDidChangeConfiguration", uri |-> "file:a"]
    /\ config = [AllEnabled EXCEPT !.checkIndentation = FALSE]
    /\ \A uri \in Uris : IsOpenPerchance(uri) /\ textDocuments[uri].text = <<" [b=1?a:b]">>
    /\ \A uri \in Uris : diagnosticCollection[uri].set
    /\ Len(diagnosticCollection["file:a"].diagnostics) = 1
    /\ Len(diagnosticCollection["file:b"].diagnostics) = 2

----------------------------------------------------------------------------
(* C23: the extent of a function body. *)

\* a line that is neither blank nor a comment
IsSignificant(line) == Trim(line) # "" /\ ~StartsWith(Trim(line), "//")

\* the line, without its comment and trimmed, ends with "=>"
EndsWithArrow(line) ==
    LET code == Trim(stripComment(line))
    IN  Len(code) >= 2 /\ SliceFrom(code, Len(code) - 2) = "=>"

\* line `body` lies in the body of the function whose header is line `header`:
\* it is deeper than the header, and so is every significant line between them
InBodyOf(lines, header, body) ==
    /\ header < body
    /\ IsSignificant(lines[header + 1])
    /\ EndsWithArrow(lines[header + 1])
    /\ \A between \in (header + 1)..body :
          IsSignificant(lines[between + 1]) =>
              LevelOf(lines[between + 1]) > LevelOf(lines[header + 1])

\* C23: once a function header at level L has been seen, every later
\* significant line before the boundary at a level above L is exempt from the
\* single-equals rule, up to the first significant line at a level of at most
\* L; a function header nested in the body does not end the outer body, and
\* blank and comment lines neither start nor end the exemption.
C23_BodyExemptUntilDedent ==
    out.op = "analyzeDocument" =>
        \A body \in 0..(findHtmlStart(text) - 1) :
            (/\ IsSignificant(text[body + 1])
             /\ \E header \in 0..(body - 1) : InBodyOf(text, header, body))
            => FindingsOfCode(out.diagnostics, IfElseCode, body) = {}

\* the same, for bodies that hold no function header of their own
C23_FlatBodyExempt ==
    out.op = "analyzeDocument" =>
        \A body \in 0..(findHtmlStart(text) - 1) :
            (/\ IsSignificant(text[body + 1])
             /\ \E header \in 0..(body - 1) :
                   /\ InBodyOf(text, header, body)
                   /\ \A between \in (header + 1)..(body - 1) :
                         ~EndsWithArrow(text[between + 1]))
            => FindingsOfCode(out.diagnostics, IfElseCode, body) = {}

\* a body line after a blank line and a comment is exempt; the line that
\* returns to the header's level is not
C23_FlatBodyWitness ==
    /\ out.op = "analyzeDocument"
    /\ text = <<"g=>", "", "//c", "  [a=1?b:c]">>
    /\ out.diagnostics = <<>>

\* the outer body after the body of a nested function is reported
C23_NestedBodyWitness ==
    /\ out.op = "analyzeDocument"
    /\ text = <<"g=>", "  h=>", "    [a=1?b:c]", "  [a=1?b:c]">>
    /\ FindingsOfCode(out.diagnostics, IfElseCode, 2) = {}
    /\ FindingsOfCode(out.diagnostics, IfElseCode, 3) # {}

----------------------------------------------------------------------------
(* C24: comments and the single-equals rule. *)

\* the line up to its first "//", the whole line when it has none
CodePart(line) ==
    IF Includes(line, "//") THEN Slice(line, 0, IndexOf(line, "//")) ELSE line

\* the spans that open and close before the first "//" and offend
OffendingBeforeComment(line) ==
    {p \in 0..(Len(CodePart(line)) - 1) :
        OpensSpan(CodePart(line), p) /\ SpanOffends(CodePart(line), p)}

\* the single-equals warnings of the batch analyzer on the line at `index`
BatchFindingsOfCode(warnings, code, index) ==
    {k \in DOMAIN warnings : warnings[k].code = code /\ warnings[k].line = index + 1}

\* C24: the single-equals rule looks only at the part of a line before its
\* first "//": each finding is for a span that opens and closes before it, and
\* the text from the "//" on neither produces a finding nor changes one. Here:
\* each finding of analyzeDocument covers an offending span of the part before
\* the "//", and analyzePerchance counts exactly the offending spans of that part.
C24_CommentsNeverContribute ==
    /\ out.op = "analyzeDocument" =>
          \A index \in 0..(Len(text) - 1) :
              \A k \in FindingsOfCode(out.diagnostics, IfElseCode, index) :
                  /\ out.diagnostics[k].start \in OffendingBeforeComment(text[index + 1])
                  /\ out.diagnostics[k].end =
                         SpanEnd(CodePart(text[index + 1]), out.diagnostics[k].start)
    /\ out.op = "analyzePerchance" =>
          \A index \in 0..(Len(text) - 1) :
              Cardinality(BatchFindingsOfCode(out.warnings, "single-equals", index))
                  = Cardinality(OffendingBeforeComment(text[index + 1]))

\* the span before the comment is reported, the same span inside the comment
\* is not
C24_Witness ==
    /\ out.op = "analyzeDocument"
    /\ text = <<"[a=1?b:c]//[a=1?b:c]">>
    /\ Len(out.diagnostics) = 1
    /\ out.diagnostics[1].code = IfElseCode
    /\ out.diagnostics[1].start = 0
    /\ out.diagnostics[1].end = 9

\* the batch analyzer on a span that closes after the comment marker
C24_BatchWitness ==
    /\ out.op = "analyzePerchance"
    /\ text = <<"[a=1//?b:c]">>
    /\ out.warnings = <<>>

----------------------------------------------------------------------------
(* C25, C26: the batch analyzer against the editor analyzer. *)

\* the 0-based lines on which the editor analyzer, all rules enabled, reports
\* a finding with this code
EditorLinesOfCode(lines, code) ==
    LET diagnostics == analyzeDocument(lines, AllEnabled, 0).diagnostics
    IN  {diagnostics[k].line : k \in {j \in DOMAIN diagnostics : diagnostics[j].code = code}}

\* the 0-based lines on which the batch analyzer reports a finding with this code
BatchLinesOfCode(lines, code) ==
    LET warnings == analyzePerchance(lines)
    IN  {warnings[k].line - 1 : k \in {j \in DOMAIN warnings : warnings[j].code = code}}

\* what either analyzer has just returned is what the other returns on the
\* same text, for this pair of codes
SameLines(editorCode, batchCode) ==
    /\ (out.op = "analyzeDocument" /\ config = AllEnabled) =>
          {out.diagnostics[k].line :
              k \in {j \in DOMAIN out.diagnostics : out.diagnostics[j].code = editorCode}}
              = BatchLinesOfCode(text, batchCode)
    /\ out.op = "analyzePerchance" =>
          {out.warnings[k].line - 1 :
              k \in {j \in DOMAIN out.warnings : out.warnings[j].code = batchCode}}
              = EditorLinesOfCode(text, editorCode)

\* C25: on every document analyzePerchance and analyzeDocument (all toggles
\* enabled) report mixed indentation on the same lines and odd indentation on
\* the same lines.
C25_SameIndentationFindings ==
    /\ SameLines("perchance.indentationMixed", "mixed-indent")
    /\ SameLines("perchance.indentationSpacing", "odd-indent")

\* a space before a tab: both analyzers report the line as mixed and as odd
C25_Witness ==
    /\ out.op = "analyzeDocument"
    /\ text = <<" \tx">>
    /\ BatchLinesOfCode(text, "mixed-indent") = {0}
    /\ BatchLinesOfCode(text, "odd-indent") = {0}
    /\ Len(out.diagnostics) = 2

\* C26: on every document analyzePerchance and analyzeDocument (duplicate
\* checking enabled) report duplicate top-level names on the same lines, also
\* when top-level lines start with "$".
C26_SameDuplicateFindings == SameLines(DuplicateCode, "duplicate-list")

\* the same, on documents none of whose lines starts with "$"
C26_SameDuplicatesWithoutDollar ==
    (\A i \in DOMAIN text : ~StartsWith(text[i], "$"))
        => SameLines(DuplicateCode, "duplicate-list")

\* a repeated plain name: both analyzers report the second line
C26_PlainWitness ==
    /\ out.op = "analyzePerchance"
    /\ text = <<"a", "a=b//a">>
    /\ BatchLinesOfCode(text, "duplicate-list") = {1}
    /\ EditorLinesOfCode(text, DuplicateCode) = {1}

\* a repeated "$" name: only the editor analyzer reports the second line
C26_DollarWitness ==
    /\ out.op = "analyzePerchance"
    /\ text = <<"$a", "$a">>
    /\ out.warnings = <<>>
    /\ EditorLinesOfCode(text, DuplicateCode) = {1}

----------------------------------------------------------------------------
(* C27: the quick fix on the lines the analyzer flags. *)

\* the ranges of the single-equals findings of analyzeDocument on a line
FlaggedSpans(line) ==
    LET diagnostics == analyzeDocument(<<line>>, AllEnabled, 0).diagnostics
    IN  {[start |-> diagnostics[k].start, end |-> diagnostics[k].end] :
            k \in FindingsOfCode(diagnostics, IfElseCode, 0)}

\* C27: on every line with a single-equals finding of the editor analyzer,
\* replaceSingleEqualsInIfElse returns a string (not null) that differs from
\* the line, and the "=" it doubles lies inside a flagged span; also when only
\* a later span of the line is flagged and when ":" comes before "?".
C27_FixAvailableWhereFlagged ==
    (out.op = "replaceSingleEqualsInIfElse" /\ FlaggedSpans(out.line) # {}) =>
        /\ out.updated # ""
        /\ out.updated # out.line
        /\ \E span \in FlaggedSpans(out.line) :
              \E p \in span.start..(span.end - 1) :
                  /\ CharAt(out.line, p) = "="
                  /\ out.updated = WithDoubledEquals(out.line, p)

\* the first span is in order, the second is flagged: no fix
C27_LaterSpanWitness ==
    /\ out.op = "replaceSingleEqualsInIfElse"
    /\ out.line = "[==?b:c] [d=1?e:f]"
    /\ FlaggedSpans(out.line) = {[start |-> 9, end |-> 18]}
    /\ out.updated = ""

\* the flagged span has its ":" before its "?": no fix
C27_ColonFirstWitness ==
    /\ out.op = "replaceSingleEqualsInIfElse"
    /\ out.line = "[a=1:b?c]"
    /\ FlaggedSpans(out.line) = {[start |-> 0, end |-> 9]}
    /\ out.updated = ""

\* the flagged span is the first ternary of the line: the fix doubles its "="
C27_FirstSpanWitness ==
    /\ out.op = "replaceSingleEqualsInIfElse"
    /\ out.line = "[=?b:c] [d=1?e:f]"
    /\ out.updated = "[==?b:c] [d=1?e:f]"

----------------------------------------------------------------------------
(* C30: list syntax after the markup boundary, in the batch analyzer. *)

\* the 0-based lines at or after the boundary that are not blank, do not start
\* with "<!--" and match a header pattern
HeadersAfterBoundary(lines) ==
    {i \in findHtmlStart(lines)..(Len(lines) - 1) :
        /\ Trim(lines[i + 1]) # ""
        /\ ~StartsWith(Trim(lines[i + 1]), "<!--")
        /\ isListHeaderLine(Trim(lines[i + 1]))}

\* C30: analyzePerchance emits at most one list-after-html finding, at the
\* first line at or after the boundary that is non-blank, does not start with
\* "<!--" and matches a header pattern; none when there is no such line or the
\* boundary is the document length; every finding has a 1-based line number
\* between 1 and the number of lines.
C30_OneFindingAfterBoundary ==
    out.op = "analyzePerchance" =>
        LET after == {k \in DOMAIN out.warnings : out.warnings[k].code = "list-after-html"}
            headers == HeadersAfterBoundary(text)
        IN  /\ Cardinality(after) <= 1
            /\ headers = {} => after = {}
            /\ findHtmlStart(text) = Len(text) => after = {}
            /\ headers # {} =>
                  \E k \in after :
                      /\ out.warnings[k].line - 1 \in headers
                      /\ \A i \in headers : out.warnings[k].line - 1 <= i
            /\ \A k \in DOMAIN out.warnings : out.warnings[k].line \in 1..Len(text)

\* a markup comment is passed over, the first of two headers after the
\* boundary is reported, the second is not
C30_Witness ==
    /\ out.op = "analyzePerchance"
    /\ text = <<"", "<p>", "<!--a", "a">>
    /\ out.warnings = <<Warning(3, "list-after-html", "List header appears after HTML start")>>

\* two headers after the boundary: one finding, at the first
C30_TwoHeadersWitness ==
    /\ out.op = "analyzePerchance"
    /\ text = <<"", "<p>", " b = c", "a">>
    /\ Len(out.warnings) = 1
    /\ out.warnings[1].line = 3

=============================================================================
